---- MODULE Spec2Model ----
(***************************************************************************)
(* MavunoSure claim adjudication pipeline: the persisted claim record, the *)
(* payment attempt log, and the entry points that act on one claim         *)
(* (Celery tasks of app/tasks/claim_tasks.py, PaymentService,              *)
(* MobileMoneyService, ClaimService and the status PATCH endpoint).        *)
(*                                                                         *)
(* One claim of one farm is modelled.  An entry point that runs without    *)
(* waiting is one action; one that awaits the money provider, a backoff    *)
(* sleep or the satellite provider is a sequence of actions, one for each  *)
(* stretch between two commits or awaits, so that other processes act in   *)
(* between.  What the outside world answers (the money provider, the SMS   *)
(* gateway, Redis, Earth Engine) is drawn with \E.                         *)
(* Python's None is the empty tuple and a present value x is <<x>>.        *)
(***************************************************************************)
EXTENDS Integers, Sequences, FiniteSets, TLC

VARIABLES
    claim,          \* the row of table claims (models/claim.py)
    farm_phone,     \* farm.phone_number of the claim's farm, a sequence of characters
    payment_log,    \* rows of table payment_transactions, in insertion order
    next_txn,       \* source of fresh transaction ids (uuid4 in send_payment)
    cycles,         \* payout cycles started so far (bounded by MaxCycles)
    last,           \* what the last entry point invocation did
    cache,          \* the Redis store of SatelliteService: key -> JSON document
    sat,            \* what the last call into the evidence side did
    engine,         \* the WeightedVerificationService instance and its calls
    workers,        \* the calls in progress, one per worker process
    broker          \* the Celery broker: the chains of tasks waiting to be applied

vars ==
    <<claim, farm_phone, payment_log, next_txn, cycles, last, cache, sat, engine, workers,
      broker>>

----------------------------------------------------------------------------
(* Bounds of the model *)

\* payout calls that pass the guard of their entry point, in one behaviour
MaxCycles == 2

\* direct calls of update_claim in one behaviour (and, where several payout
\* calls race, of the status update)
MaxUpdates == 1

\* direct calls of update_claim in one behaviour of the first two stages
MaxStageUpdates == 2

\* chains of tasks queued at the broker at one time
MaxChains == 1

\* commits of the paid state that fail, in one behaviour
MaxUnsaved == 1

----------------------------------------------------------------------------
(* Program constants *)

MAX_RETRIES == 3
BASE_BACKOFF_SECONDS == 2
DEFAULT_PAYOUT_AMOUNT == 5000

\* PaymentTransaction.transaction_id = "" of a refused transfer
NoTransactionId == 0

----------------------------------------------------------------------------
(* Python values *)

None == <<>>
Some(x) == <<x>>

\* bool(x) of an optional number: None and 0 are falsy
Truthy(o) == o # None /\ o[1] # 0

\* str.startswith
StartsWith(s, prefix) ==
    /\ Len(s) >= Len(prefix)
    /\ SubSeq(s, 1, Len(prefix)) = prefix

\* integer power, BASE ** n
RECURSIVE Pow(_, _)
Pow(b, n) == IF n = 0 THEN 1 ELSE b * Pow(b, n - 1)

ClaimStatus == {"pending", "auto_approved", "flagged_for_review", "rejected", "paid"}

\* phone numbers a farm can be registered with (FarmBase.phone_number is any string)
KenyaPrefix == <<"+", "2", "5", "4">>
PhoneNumbers ==
    { <<"+", "2", "5", "4", "7", "1", "2">>,    \* +254712...
      <<"0", "7", "1", "2">> }                  \* local format

----------------------------------------------------------------------------
(* The claim row as ClaimService.create_claim leaves it *)

NewClaim ==
    [ status                 |-> "pending",
      ndmi_value             |-> None,
      ndmi_14day_avg         |-> None,
      satellite_verdict      |-> None,
      observation_date       |-> None,
      cloud_cover_pct        |-> None,
      weighted_score         |-> None,
      verdict_explanation    |-> None,
      ground_truth_confidence |-> None,
      space_truth_confidence |-> None,
      payout_amount          |-> None,
      payout_status          |-> None,
      payout_reference       |-> None ]

----------------------------------------------------------------------------
(* MobileMoneyService.send_payment *)

\* What the world answers to one transfer attempt that passes validation:
\* "success" (the simulated branch), "failure" (the production branch, API
\* not configured) or "exception" (an exception leaves send_payment).
AttemptOutcomes == {"success", "failure", "exception"}

\* The rows _log_transaction inserts.  `active` is the state of the database
\* session the caller passes: in a session that a failed commit left inactive
\* the commit of line 174 raises, the handler of lines 178-180 swallows the
\* exception and rolls the session back, and no row is inserted.
log_transaction(transaction_id, amount, success, active) ==
    IF active
    THEN << [ transaction_id |-> transaction_id,
              amount         |-> amount,
              status         |-> IF success THEN "completed" ELSE "failed" ] >>
    ELSE << >>

PhoneRefused(phone_number) ==
    phone_number = << >> \/ ~StartsWith(phone_number, KenyaPrefix)

AmountRefused(amount) == amount <= 0

\* result: raised, success, transaction_id, the rows logged, the next fresh
\* id, and whether _log_transaction was called (it commits the session or
\* rolls it back; a refusal returns before it)
send_payment(phone_number, amount, outcome, txn, active) ==
    IF PhoneRefused(phone_number) \/ AmountRefused(amount)
    THEN [ raised |-> FALSE, success |-> FALSE, transaction_id |-> NoTransactionId,
           logged |-> << >>, next_txn |-> txn, log_called |-> FALSE ]
    ELSE IF outcome = "exception"
    THEN [ raised |-> TRUE, success |-> FALSE, transaction_id |-> NoTransactionId,
           logged |-> << >>, next_txn |-> txn + 1, log_called |-> FALSE ]
    ELSE LET success == outcome = "success" IN
         [ raised |-> FALSE, success |-> success, transaction_id |-> txn,
           logged |-> log_transaction(txn, amount, success, active),
           next_txn |-> txn + 1, log_called |-> TRUE ]

----------------------------------------------------------------------------
(* PaymentService.process_payout *)

\* Two guards the code does not have, kept to show that C1 and C3 depend on
\* the guard as written: one lets a paid claim through, one a flagged claim.
payout_skips_paid_passes(c) == c.status \notin {"auto_approved", "paid"}
payout_skips_flagged_passes(c) == c.status \notin {"auto_approved", "flagged_for_review"}

\* the status guard of process_payout
payout_skips(c) == c.status # "auto_approved"

\* a backoff that starts one power too low (1 s, 2 s), for C8
backoff_seconds_from_one(attempt) == Pow(BASE_BACKOFF_SECONDS, attempt)

\* the sleep after failed attempt number `attempt` (0-based)
backoff_seconds(attempt) == Pow(BASE_BACKOFF_SECONDS, attempt + 1)

\* whether the loop sleeps after a failed attempt
sleeps_after(attempt) == attempt < MAX_RETRIES - 1

\* The attributes a stretch of code assigns on the Claim instance are a
\* record column -> value.  The commit that follows writes, of the assigned
\* columns, those whose value differs from the one the instance was loaded
\* with, and every assigned column when the instance is expired (held is
\* None); the other columns of the stored row stay as they are.
written(held, assigned) ==
    { f \in DOMAIN assigned : held = None \/ held[1][f] # assigned[f] }

\* the stored row after the commit
committed(held, assigned, stored) ==
    [ f \in DOMAIN stored |->
        IF f \in written(held, assigned) THEN assigned[f] ELSE stored[f] ]

\* the assignments of lines 105-107, after a successful transfer
mark_paid(transaction_id) ==
    [ status |-> "paid",
      payout_status |-> Some("completed"),
      payout_reference |-> Some(transaction_id) ]

\* an exhaustion branch that also rejects the claim, for C4
flag_manual_rejects ==
    [ status |-> "rejected",
      payout_status |-> Some("failed_manual_review_required") ]

\* the assignment of line 159, after the loop ran out of attempts
flag_manual ==
    [ payout_status |-> Some("failed_manual_review_required") ]

\* What the SMS gateway does with a dispatched notification: delivered,
\* reported as not delivered, or an exception.
SmsOutcomes == {"sent", "not_sent", "raised"}

\* a payout without the inner try/except around the notification, for C10
notification_escapes_when_raised(sms) == sms = "raised"

\* Whether an exception of the notification leaves the inner try/except of
\* process_payout (and so reaches the handler of the attempt's own try):
\* the inner handler catches every Exception.
notification_escapes(sms) == FALSE

\* `if not claim.payout_amount`: no amount on the claim, or an amount of 0
amount_unset(c) == ~Truthy(c.payout_amount)

\* the assignments of lines 84-85: the amount to pay and the payout status
\* pending
with_amount(payout_amount) ==
    [ payout_amount |-> Some(payout_amount),
      payout_status |-> Some("pending") ]

\* payout_amount = claim.payout_amount or DEFAULT_PAYOUT_AMOUNT
amount_to_pay(c) ==
    IF Truthy(c.payout_amount) THEN c.payout_amount[1] ELSE DEFAULT_PAYOUT_AMOUNT

\* how one call of send_payment came out, as the loop sees it
attempt_kind(r) ==
    IF r.raised THEN "raised"
    ELSE IF r.success THEN "success"
    ELSE IF r.transaction_id = NoTransactionId THEN "refused"
    ELSE "failed"

\* the sleeps of a cycle after the pass numbered `attempt` ended without a
\* return: the backoff is awaited unless the pass was the last
sleeps_with(sleeps, attempt) ==
    IF sleeps_after(attempt) THEN Append(sleeps, backoff_seconds(attempt)) ELSE sleeps

\* where the loop goes after the pass numbered `attempt` ended without a
\* return: into the next pass, or out of the loop to line 159
pc_after(attempt) == IF attempt + 1 >= MAX_RETRIES THEN "flag" ELSE "loop"

\* a retry guard that refuses only a claim never paid out, for C9
retry_refused_only_unattempted(c) == c.payout_status = None

\* the guard of retry_failed_payment
retry_refused(c) == c.payout_status # Some("failed_manual_review_required")

\* the assignment of line 195, before retry_failed_payment calls
\* process_payout
reset_pending == [ payout_status |-> Some("pending") ]

----------------------------------------------------------------------------
(* SatelliteService and GEEClient (app/services/satellite_service.py) *)

\* Moisture indices are in hundredths (-20 is -0.2), coordinates in units of
\* 0.00001 degree, datetimes are [day, hour].

GEE_MAX_RETRIES == 3
GEE_RETRY_DELAY == 2

\* a verdict whose severe band takes in -0.2 itself, for C20
generate_verdict_inclusive(ndmi_value) ==
    IF ndmi_value <= -20 THEN "severe_stress"
    ELSE IF ndmi_value < -10 THEN "moderate_stress"
    ELSE "normal"

\* SatelliteService._generate_verdict
generate_verdict(ndmi_value) ==
    IF ndmi_value < -20 THEN "severe_stress"
    ELSE IF ndmi_value < -10 THEN "moderate_stress"
    ELSE "normal"

SatelliteVerdict == {"severe_stress", "moderate_stress", "normal"}

\* round(x, 4) of a coordinate and the text an f-string gives for it.  A
\* negative coordinate that rounds to zero is -0.0 and prints as "-0.0".
\* Coordinates exactly half way between two 4-decimal values are left out of
\* the inputs: how a binary float rounds there depends on its representation.
round4(x) == (x + 5) \div 10
rounded_text(x) == [ value |-> round4(x), minus_zero |-> (round4(x) = 0 /\ x < 0) ]

\* claim_date.strftime('%Y-%m-%d')
date_text(claim_date) == claim_date.day

\* SatelliteService._generate_cache_key
generate_cache_key(lat, lng, claim_date) ==
    << "satellite", rounded_text(lat), rounded_text(lng), date_text(claim_date) >>

\* datetime.isoformat and datetime.fromisoformat
isoformat(dt) == << "iso", dt.day, dt.hour >>
fromisoformat(text) == [ day |-> text[2], hour |-> text[3] ]

\* the JSON document _cache_result writes for a SpaceTruth
dump_space_truth(result) ==
    [ ndmi_value |-> result.ndmi_value,
      ndmi_14day_avg |-> result.ndmi_14day_avg,
      observation_date |-> isoformat(result.observation_date),
      cloud_cover_pct |-> result.cloud_cover_pct,
      verdict |-> result.verdict ]

\* a reader that derives the verdict from the baseline average, for C19
load_space_truth_rederiving(data) ==
    [ ndmi_value |-> data.ndmi_value,
      ndmi_14day_avg |-> data.ndmi_14day_avg,
      observation_date |-> fromisoformat(data.observation_date),
      cloud_cover_pct |-> data.cloud_cover_pct,
      verdict |-> generate_verdict(data.ndmi_14day_avg) ]

\* the SpaceTruth _get_cached_result builds from a JSON document
load_space_truth(data) ==
    [ ndmi_value |-> data.ndmi_value,
      ndmi_14day_avg |-> data.ndmi_14day_avg,
      observation_date |-> fromisoformat(data.observation_date),
      cloud_cover_pct |-> data.cloud_cover_pct,
      verdict |-> data.verdict ]

EmptyCache == << >>

\* what one call of a remote function does
CallOutcomes == {"ok", "EEException", "Exception"}

\* a constant delay, for C15
retry_delay_constant(attempt) == GEE_RETRY_DELAY

\* the sleep of execute_with_retry after failed attempt number `attempt`
retry_delay(attempt) == GEE_RETRY_DELAY * Pow(2, attempt)

\* GEEClient.execute_with_retry over the outcomes of the successive calls of
\* func: how many calls were made, how it ended and the sleeps in between.
\* `raised` is the index of the call whose exception leaves the method.
RECURSIVE execute_with_retry_from(_, _, _)
execute_with_retry_from(attempt, outcomes, acc) ==
    IF attempt >= GEE_MAX_RETRIES
    THEN [ calls |-> acc.calls, ended |-> "EEException", raised |-> acc.calls,
           returned |-> 0, delays |-> acc.delays ]
    ELSE LET o == outcomes[attempt + 1]
             n == acc.calls + 1
         IN  IF o = "ok"
             THEN [ calls |-> n, ended |-> "ok", raised |-> 0, returned |-> n,
                    delays |-> acc.delays ]
             ELSE IF o = "EEException"
             THEN execute_with_retry_from(attempt + 1, outcomes,
                    [ calls |-> n,
                      delays |-> IF attempt < GEE_MAX_RETRIES - 1
                                 THEN Append(acc.delays, retry_delay(attempt))
                                 ELSE acc.delays ])
             ELSE [ calls |-> n, ended |-> o, raised |-> n, returned |-> 0,
                    delays |-> acc.delays ]

execute_with_retry(outcomes) ==
    execute_with_retry_from(0, outcomes, [ calls |-> 0, delays |-> << >> ])

\* Answers of Earth Engine to one _query_satellite_data: the outcomes of the
\* successive calls of each of the four remote functions, and the values
\* read when they succeed.  "NoImagery" is the plain Exception that
\* get_recent_image raises when no image of the window qualifies.
AllOk == <<"ok", "ok", "ok">>
Transient == <<"EEException", "EEException", "EEException">>
Readings ==
    { [ ndmi_value |-> -21, baseline |-> Some(-5) ],
      [ ndmi_value |-> -20, baseline |-> None ],
      [ ndmi_value |-> -10, baseline |-> Some(-5) ] }
DefaultReading == [ ndmi_value |-> -10, baseline |-> Some(-5) ]
Answers(recent, ndmi, meta, baseline, reading) ==
    [ recent |-> recent, ndmi |-> ndmi, meta |-> meta, baseline |-> baseline,
      reading |-> reading ]
QueryAnswers ==
    { Answers(AllOk, AllOk, AllOk, AllOk, r) : r \in Readings }
    \cup { Answers(<<"EEException", "ok", "ok">>, AllOk, AllOk, AllOk, r) : r \in Readings }
    \cup { Answers(Transient, AllOk, AllOk, AllOk, DefaultReading),
           Answers(<<"NoImagery", "ok", "ok">>, AllOk, AllOk, AllOk, DefaultReading),
           Answers(<<"EEException", "NoImagery", "ok">>, AllOk, AllOk, AllOk, DefaultReading),
           Answers(AllOk, <<"Exception", "ok", "ok">>, AllOk, AllOk, DefaultReading),
           Answers(AllOk, AllOk, AllOk, <<"EEException", "Exception", "ok">>, DefaultReading) }

\* the satellite pass the provider reports for its least cloudy image
ObservationDate == [ day |-> 2, hour |-> 10 ]
CloudCoverPct == 5

\* SatelliteService._query_satellite_data: the four remote functions in the
\* order the code calls them, each through execute_with_retry; the first
\* exception ends the query.
query_satellite_data(answers) ==
    LET recent   == execute_with_retry(answers.recent)
        ndmi     == execute_with_retry(answers.ndmi)
        meta     == execute_with_retry(answers.meta)
        baseline == execute_with_retry(answers.baseline)
        value    == answers.reading.ndmi_value
        average  == IF answers.reading.baseline = None THEN 0
                    ELSE answers.reading.baseline[1]
        QueryFailed(r, calls) ==
            [ ended |-> r.ended, result |-> None, calls |-> calls ]
    IN  IF recent.ended # "ok" THEN QueryFailed(recent, <<recent.calls>>)
        ELSE IF ndmi.ended # "ok" THEN QueryFailed(ndmi, <<recent.calls, ndmi.calls>>)
        ELSE IF meta.ended # "ok"
        THEN QueryFailed(meta, <<recent.calls, ndmi.calls, meta.calls>>)
        ELSE IF baseline.ended # "ok"
        THEN QueryFailed(baseline, <<recent.calls, ndmi.calls, meta.calls, baseline.calls>>)
        ELSE [ ended |-> "ok",
               result |-> Some([ ndmi_value |-> value,
                                 ndmi_14day_avg |-> average,
                                 observation_date |-> ObservationDate,
                                 cloud_cover_pct |-> CloudCoverPct,
                                 verdict |-> generate_verdict(value) ]),
               calls |-> <<recent.calls, ndmi.calls, meta.calls, baseline.calls>> ]

\* What Redis does during one verify_claim: whether GET works and whether
\* SETEX works (a connection that cannot be made fails both).
RedisStates == [ read : BOOLEAN, write : BOOLEAN ]

\* a lookup that never finds anything, for C17
get_cached_result_never(store, cache_key, redis) == None

\* a lookup that hands out the stored entry although the read failed, for C16
get_cached_result_despite_failure(store, cache_key, redis) ==
    IF cache_key \in DOMAIN store
    THEN Some(load_space_truth(store[cache_key]))
    ELSE None

\* SatelliteService._get_cached_result: None on a miss and on any failure
get_cached_result(store, cache_key, redis) ==
    IF redis.read /\ cache_key \in DOMAIN store
    THEN Some(load_space_truth(store[cache_key]))
    ELSE None

\* SatelliteService._cache_result: the store afterwards
cache_result(store, cache_key, result, redis) ==
    IF redis.write
    THEN [ k \in DOMAIN store \cup {cache_key} |->
             IF k = cache_key THEN dump_space_truth(result) ELSE store[k] ]
    ELSE store

\* SatelliteService.verify_claim
verify_claim(store, lat, lng, claim_date, redis, answers) ==
    LET cache_key == generate_cache_key(lat, lng, claim_date)
        cached_result == get_cached_result(store, cache_key, redis)
        q == query_satellite_data(answers)
    IN  IF cached_result # None
        THEN [ ended |-> "ok", result |-> cached_result, from_cache |-> TRUE,
               calls |-> << >>, store |-> store, cache_key |-> cache_key ]
        ELSE IF q.ended # "ok"
        THEN [ ended |-> q.ended, result |-> None, from_cache |-> FALSE,
               calls |-> q.calls, store |-> store, cache_key |-> cache_key ]
        ELSE [ ended |-> "ok", result |-> q.result, from_cache |-> FALSE,
               calls |-> q.calls,
               store |-> cache_result(store, cache_key, q.result[1], redis),
               cache_key |-> cache_key ]

----------------------------------------------------------------------------
(* The record of the last step: an invocation that returned, a direct     *)
(* write, or a call that is under way                                     *)

\* An invocation that made no transfer and wrote nothing.  `post` is the
\* claim row as the invocation left it when it returned, `alone` whether no
\* other process wrote to the store while it ran.
Quiet(op, pre, result) ==
    [ op |-> op, pre |-> pre, post |-> pre, result |-> result, attempts |-> 0,
      notified |-> 0, logged |-> << >>, sleeps |-> << >>, results |-> << >>,
      sms |-> "none", alone |-> TRUE, unsaved |-> 0,
      transaction_id |-> NoTransactionId ]

\* a direct write to the claim row: what was asked for
Wrote(op, asked) == [ op |-> op, asked |-> asked ]

\* a step of a call that has not returned yet
Under(op) == [ op |-> "under_way", of |-> op ]

\* A payout call `me` that returns `result`, leaving the row `post`.
\* `unsaved` counts the passes of the loop in which the commit of the paid
\* state raised, `transaction_id` is the id of the last transfer that went
\* through.
Ran(me, post, result, sms) ==
    [ op |-> me.op, pre |-> me.pre, post |-> post,
      result |-> IF result THEN "True" ELSE "False",
      attempts |-> Len(me.results), notified |-> me.notified,
      logged |-> me.logged, sleeps |-> me.sleeps, results |-> me.results,
      sms |-> IF me.notified > 0 THEN sms ELSE "none", alone |-> me.alone,
      unsaved |-> me.unsaved, transaction_id |-> me.transaction_id ]

\* a payout call `me` that an exception leaves, the row being `post`
Raised(me, post, exception) ==
    [ Ran(me, post, FALSE, "none") EXCEPT !.result = exception ]

\* no call into the evidence side yet
NoCall == [ op |-> "none" ]

----------------------------------------------------------------------------
(* WeightedVerificationService (app/services/weighted_verification_service.py)

   Confidences are in hundredths (87 is 0.87), the weights in tenths, scores
   in thousandths (642 is 0.642), moisture indices in hundredths as above.
   With confidences of two decimals the exact score 0.6 g + 0.4 s is never
   0.5 or 0.8 (6 g + 4 s = 500 or 800 has no integer solution g for s in
   30, 60, 90), so the binary rounding of the code's floats cannot move a
   score across a threshold and the exact arithmetic below decides as the
   code does. *)

GROUND_TRUTH_WEIGHT == 6
SPACE_TRUTH_WEIGHT == 4
AUTO_APPROVE_THRESHOLD == 800
FLAG_THRESHOLD == 500

CropCondition ==
    { "healthy", "drought_stress", "northern_leaf_blight", "common_rust",
      "fall_armyworm", "other" }

\* an instance that auto-approves from 0.6 on, for C40
NewService_low_bar ==
    [ GROUND_TRUTH_WEIGHT |-> GROUND_TRUTH_WEIGHT,
      SPACE_TRUTH_WEIGHT |-> SPACE_TRUTH_WEIGHT,
      AUTO_APPROVE_THRESHOLD |-> 600,
      FLAG_THRESHOLD |-> FLAG_THRESHOLD ]

\* the attributes verify reads through self
NewService ==
    [ GROUND_TRUTH_WEIGHT |-> GROUND_TRUTH_WEIGHT,
      SPACE_TRUTH_WEIGHT |-> SPACE_TRUTH_WEIGHT,
      AUTO_APPROVE_THRESHOLD |-> AUTO_APPROVE_THRESHOLD,
      FLAG_THRESHOLD |-> FLAG_THRESHOLD ]

\* format specs: .1% of a confidence (tenths of a percent), .3f of an index
\* (thousandths), .1f of a percentage (tenths), .2f of a score (hundredths;
\* 6 g + 4 s and the rule scores never end in 5 thousandths, so no tie)
percent_1(confidence) == confidence * 10
fixed_3(index) == index * 10
fixed_1(pct) == pct * 10
fixed_2(score) == (score + 5) \div 10

\* strftime('%B')
MonthNames ==
    << "January", "February", "March", "April", "May", "June", "July",
       "August", "September", "October", "November", "December" >>
strftime_B(d) == MonthNames[d.month]

\* top_three_classes[:3]
first_three(top) == [i \in 1..(IF Len(top) < 3 THEN Len(top) ELSE 3) |-> top[i]]

\* _format_top_classes_explanation
format_top_classes_explanation(top_three_classes) ==
    IF Len(top_three_classes) = 0
    THEN << "No alternative classifications available" >>
    ELSE [ i \in DOMAIN first_three(top_three_classes) |->
             << i, top_three_classes[i][1], percent_1(top_three_classes[i][2]) >> ]

\* a severe verdict valued as a moderate one, for C27
satellite_confidence_flat(space_truth) ==
    IF space_truth.verdict = "normal" THEN 30 ELSE 60

\* _satellite_confidence
satellite_confidence(space_truth) ==
    IF space_truth.verdict = "severe_stress" THEN 90
    ELSE IF space_truth.verdict = "moderate_stress" THEN 60
    ELSE 30

\* a disagreement check that also counts a moderate verdict against a
\* healthy crop, for C29
check_disagreement_any_stress(ground_truth, space_truth) ==
    \/ ground_truth.ml_class = "drought_stress" /\ space_truth.verdict = "normal"
    \/ ground_truth.ml_class = "healthy" /\ space_truth.verdict # "normal"

\* _check_disagreement
check_disagreement(ground_truth, space_truth) ==
    IF ground_truth.ml_class = "drought_stress" /\ space_truth.verdict = "normal"
    THEN TRUE
    ELSE IF ground_truth.ml_class = "healthy" /\ space_truth.verdict = "severe_stress"
    THEN TRUE
    ELSE FALSE

DisagreementNotice == "Ground Truth and Space Truth Disagreement Detected"

\* _build_detailed_explanation: the parts of the text, in order
build_detailed_explanation(self_, status, score, ground_truth, space_truth, rule_applied, base_explanation) ==
    [ base |-> base_explanation,
      classification |->
          [ primary |-> << ground_truth.ml_class, percent_1(ground_truth.ml_confidence) >>,
            top_three |-> format_top_classes_explanation(ground_truth.top_three_classes) ],
      satellite |->
          [ ndmi_value |-> fixed_3(space_truth.ndmi_value),
            ndmi_14day_avg |-> fixed_3(space_truth.ndmi_14day_avg),
            verdict |-> space_truth.verdict,
            observation_date |-> date_text(space_truth.observation_date),
            cloud_cover |-> fixed_1(space_truth.cloud_cover_pct) ],
      logic |->
          [ ground_truth_confidence |-> percent_1(ground_truth.ml_confidence),
            space_truth_confidence |-> percent_1(satellite_confidence(space_truth)),
            weighted_score |-> fixed_2(score),
            weights |-> << self_.GROUND_TRUTH_WEIGHT, self_.SPACE_TRUTH_WEIGHT >>,
            rule_applied |-> rule_applied ],
      threshold |->
          IF status = "auto_approved"
          THEN << "Auto-approve (score > ", self_.AUTO_APPROVE_THRESHOLD, ")" >>
          ELSE IF status = "flagged_for_review"
          THEN << "Flag for review (score between ", self_.FLAG_THRESHOLD, " and ",
                  self_.AUTO_APPROVE_THRESHOLD, ")" >>
          ELSE IF status = "rejected"
          THEN << "Reject (score < ", self_.FLAG_THRESHOLD, ")" >>
          ELSE << "N/A" >>,
      disagreement |->
          IF check_disagreement(ground_truth, space_truth)
          THEN << DisagreementNotice, ground_truth.ml_class, space_truth.verdict >>
          ELSE << >> ]

WeightedVerificationResult(score, status, explanation, gt_conf, st_conf, rule_applied) ==
    [ score |-> score, status |-> status, explanation |-> explanation,
      ground_truth_confidence |-> gt_conf, space_truth_confidence |-> st_conf,
      rule_applied |-> rule_applied ]

\* variants of the rule conditions the code does not have: rule 1 at the
\* threshold itself (C23), rule 2 switched off (C21), rule 3 for blight only
\* (C24), rule 4 at the threshold itself (C25) and for any class (C28),
\* rule 5 only under a normal verdict (C26)
rule_1_inclusive(ground_truth, space_truth) ==
    ground_truth.ml_class = "drought_stress" /\ space_truth.ndmi_value <= -20
rule_2_never(ground_truth, space_truth) == FALSE
rule_3_blight_only(ground_truth, space_truth) ==
    ground_truth.ml_class = "northern_leaf_blight"
rule_4_inclusive(ground_truth, space_truth) ==
    ground_truth.ml_class = "healthy" /\ space_truth.ndmi_value <= -10
rule_4_any_class(ground_truth, space_truth) == space_truth.ndmi_value < -10
rule_5_normal_only(ground_truth, space_truth) ==
    ground_truth.ml_class = "other" /\ space_truth.verdict = "normal"

\* the conditions of the five contextual rules
rule_1_drought_low_moisture(ground_truth, space_truth) ==
    ground_truth.ml_class = "drought_stress" /\ space_truth.ndmi_value < -20
rule_2_drought_normal_moisture(ground_truth, space_truth) ==
    ground_truth.ml_class = "drought_stress" /\ space_truth.verdict = "normal"
rule_3_disease_normal_moisture(ground_truth, space_truth) ==
    ground_truth.ml_class \in {"northern_leaf_blight", "common_rust"}
rule_4_healthy_low_moisture(ground_truth, space_truth) ==
    ground_truth.ml_class = "healthy" /\ space_truth.ndmi_value < -10
rule_5_invalid_subject(ground_truth, space_truth) ==
    ground_truth.ml_class = "other"

\* _apply_contextual_rules: the first rule whose condition holds, or None
apply_contextual_rules(self_, ground_truth, space_truth) ==
    LET gt_conf == ground_truth.ml_confidence
        decided(status, score, st_conf, rule_applied, base_explanation) ==
            Some(WeightedVerificationResult(
                score, status,
                build_detailed_explanation(self_, status, score, ground_truth,
                                           space_truth, rule_applied, base_explanation),
                gt_conf, st_conf, rule_applied))
    IN  IF rule_1_drought_low_moisture(ground_truth, space_truth)
        THEN decided("auto_approved", 950, 90, "rule_1_drought_low_moisture",
                << "Double confirmation: Visual drought stress matches severe satellite moisture deficit. High confidence in claim validity." >>)
        ELSE IF rule_2_drought_normal_moisture(ground_truth, space_truth)
        THEN decided("flagged_for_review", 650, 30, "rule_2_drought_normal_moisture",
                << "Possible localized drought or camera fraud - satellite shows normal moisture but ground assessment indicates drought. Manual review required." >>)
        ELSE IF rule_3_disease_normal_moisture(ground_truth, space_truth)
        THEN decided("auto_approved", 850, 50, "rule_3_disease_normal_moisture",
                << "Disease detected (", ground_truth.ml_class,
                   "). Satellite may not show immediate moisture impact for disease conditions. Claim approved based on visual assessment." >>)
        ELSE IF rule_4_healthy_low_moisture(ground_truth, space_truth)
        THEN decided("rejected", 200, 90, "rule_4_healthy_low_moisture",
                << "Contradiction: Crop appears healthy in photo but satellite shows moisture stress. Possible bare soil reading or invalid photo. Claim rejected." >>)
        ELSE IF rule_5_invalid_subject(ground_truth, space_truth)
        THEN decided("rejected", 0, 0, "rule_5_invalid_subject",
                << "Invalid subject matter - photo does not show a valid crop condition. Claim rejected." >>)
        ELSE None

\* the dry harvest months of the crop calendar
DryHarvestMonths == {1, 2}

IrrigationSentence ==
    "), but satellite shows adequate moisture. Claim rejected due to seasonality mismatch unless irrigation is documented."

\* _apply_seasonality_validation
apply_seasonality_validation(self_, ground_truth, space_truth, claim_date) ==
    IF /\ ground_truth.ml_class = "drought_stress"
       /\ claim_date.month \in DryHarvestMonths
       /\ space_truth.ndmi_value >= -10
    THEN Some(WeightedVerificationResult(
            450, "rejected",
            build_detailed_explanation(self_, "rejected", 450, ground_truth, space_truth,
                "seasonality_dry_harvest_rejection",
                << "Drought claim submitted during historically dry harvest month (",
                   strftime_B(claim_date), IrrigationSentence >>),
            ground_truth.ml_confidence, 30, "seasonality_dry_harvest_rejection"))
    ELSE None

\* the weights exchanged, for C27
weighted_score_swapped(self_, gt_confidence, st_confidence) ==
    gt_confidence * self_.SPACE_TRUTH_WEIGHT + st_confidence * self_.GROUND_TRUTH_WEIGHT

\* score = gt * GROUND_TRUTH_WEIGHT + st * SPACE_TRUTH_WEIGHT
weighted_score(self_, gt_confidence, st_confidence) ==
    gt_confidence * self_.GROUND_TRUTH_WEIGHT + st_confidence * self_.SPACE_TRUTH_WEIGHT

\* WeightedVerificationService.verify; claim_date is None or Some(date)
verify(self_, ground_truth, space_truth, claim_date) ==
    LET contextual_result == apply_contextual_rules(self_, ground_truth, space_truth)
        seasonality_result ==
            IF claim_date # None
            THEN apply_seasonality_validation(self_, ground_truth, space_truth, claim_date[1])
            ELSE None
        gt_confidence == ground_truth.ml_confidence
        st_confidence == satellite_confidence(space_truth)
        score == weighted_score(self_, gt_confidence, st_confidence)
        status == IF score > self_.AUTO_APPROVE_THRESHOLD THEN "auto_approved"
                  ELSE IF score >= self_.FLAG_THRESHOLD THEN "flagged_for_review"
                  ELSE "rejected"
        base_explanation ==
            IF status = "auto_approved"
            THEN << "High confidence from both Ground Truth and Space Truth. The claim meets the auto-approval threshold." >>
            ELSE IF status = "flagged_for_review"
            THEN << "Moderate confidence detected. The weighted score falls in the review range, indicating uncertainty that requires human judgment." >>
            ELSE << "Low confidence score. The combined assessment from visual and satellite data does not meet the minimum threshold for claim approval." >>
    IN  IF contextual_result # None THEN contextual_result[1]
        ELSE IF seasonality_result # None THEN seasonality_result[1]
        ELSE WeightedVerificationResult(
                score, status,
                build_detailed_explanation(self_, status, score, ground_truth,
                                           space_truth, "weighted_score", base_explanation),
                gt_confidence, st_confidence, "weighted_score")

\* the worker processes that can run a call at the same time
Workers == {1, 2}

\* a worker that runs no call
IdleWorker == [ pc |-> "idle" ]

\* A call of a payout entry point that passed the entry point's own guard:
\* where it stands (pc), the row it found (pre), and what it has done so
\* far.  `held` is the Claim instance the call's session holds, with the
\* columns as they were loaded: a query for a claim the session holds returns
\* that instance as it is, and a commit or a rollback expires it, so that
\* the next query loads the stored row.  `inactive` says that a commit of
\* the session failed and no rollback has followed: until Session.rollback()
\* every further commit raises PendingRollbackError.  `unsaved` counts the
\* commits of the paid state that failed.  `sent_while` is the stored status
\* of the claim at the moment the last transfer of this call went through,
\* `alone` whether no other process has written to the store since the call
\* began.
PayoutCall(op, pre) ==
    [ pc |-> "enter", op |-> op, pre |-> pre, held |-> Some(pre), amount |-> 0,
      attempt |-> 0, results |-> << >>, sleeps |-> << >>, logged |-> << >>,
      notified |-> 0, transaction_id |-> NoTransactionId, sent_while |-> None,
      alone |-> TRUE, inactive |-> FALSE, unsaved |-> 0 ]

\* db.query(Claim).filter(Claim.id == claim_id).first() in the session of
\* call `me`, the stored row being c
query_claim(me, c) == IF me.held = None THEN c ELSE me.held[1]

\* The calls in progress and what the behaviour has seen so far: the
\* direct updates made, and the commits of the paid state that failed.
NoWorkers ==
    [ procs |-> [ w \in Workers |-> IdleWorker ], updates |-> 0, unsaved |-> 0 ]

\* The calls in progress after worker w (0: a process that is not a worker)
\* made a step: when the step wrote to the store, the other calls in
\* progress did not run alone.
others_see(procs, w, wrote) ==
    [ v \in Workers |->
        IF v # w /\ wrote /\ procs[v].pc # "idle"
        THEN [ procs[v] EXCEPT !.alone = FALSE ]
        ELSE procs[v] ]

\* no chain of tasks queued
NoChains == [ queue |-> << >> ]

\* the singleton weighted_verification_service before any call
NewEngine == [ self |-> NewService, input |-> NoCall, call |-> NoCall ]

----------------------------------------------------------------------------
(* Initial state: a freshly created claim of a registered farm *)

Init ==
    /\ claim = NewClaim
    /\ farm_phone \in PhoneNumbers
    /\ payment_log = << >>
    /\ next_txn = 1
    /\ cycles = 0
    /\ last = Quiet("create_claim", NewClaim, "ok")
    /\ cache = EmptyCache
    /\ sat = NoCall
    /\ engine = NewEngine
    /\ workers = NoWorkers
    /\ broker = NoChains

----------------------------------------------------------------------------
(* The evidence and adjudication tasks (app/tasks/claim_tasks.py) *)

\* ClaimUpdate (schemas/claim.py) with every field left None
NoUpdate ==
    [ status |-> None, space_truth |-> None, verification_result |-> None,
      payout_amount |-> None, payout_status |-> None, payout_reference |-> None ]

ManualAmount == 9999
ManualReference == 900

\* SpaceTruthData (schemas/claim.py): the index and the verdict are two
\* fields, each validated on its own; no validator ties one to the other,
\* and update_claim stores the pair it is handed
SpaceTruthData(ndmi_value, satellite_verdict) ==
    [ ndmi_value |-> ndmi_value, ndmi_14day_avg |-> -5,
      satellite_verdict |-> satellite_verdict,
      observation_date |-> ObservationDate, cloud_cover_pct |-> CloudCoverPct ]

\* WeightedVerificationResult (schemas/claim.py): two decisions
ApprovingResult ==
    [ weighted_score |-> 850, status |-> "auto_approved",
      verdict_explanation |-> "explanation",
      ground_truth_confidence |-> 90, space_truth_confidence |-> 90 ]
RejectingResult ==
    [ weighted_score |-> 450, status |-> "rejected",
      verdict_explanation |-> "another explanation",
      ground_truth_confidence |-> 80, space_truth_confidence |-> 30 ]

\* ClaimUpdate objects handed to update_claim while payout calls run: a
\* manual settlement; evidence with an index below -0.2, as the evidence task
\* builds its update (line 70); evidence with an index of 0.0 together with
\* an amount of zero and a payout status and reference of ""; and a
\* decision, as the adjudication task builds its update (line 162), with a
\* status of its own.
PayoutUpdates ==
    { [ NoUpdate EXCEPT !.status = Some("paid"), !.payout_status = Some("paid"),
                        !.payout_reference = Some(ManualReference),
                        !.payout_amount = Some(ManualAmount) ],
      [ NoUpdate EXCEPT !.space_truth = Some(SpaceTruthData(-25, "severe_stress")) ],
      [ NoUpdate EXCEPT !.space_truth = Some(SpaceTruthData(0, "normal")),
                        !.payout_amount = Some(0), !.payout_status = Some(""),
                        !.payout_reference = Some(NoTransactionId) ],
      [ NoUpdate EXCEPT !.status = Some("rejected"),
                        !.verification_result = Some(ApprovingResult) ] }

\* All ClaimUpdate objects tried: those above, evidence with an index of
\* exactly -0.2, and a second decision.  The evidence is what the evidence
\* task hands over: a record of the satellite service, whose verdict is the
\* one _generate_verdict gives for its index.
ClaimUpdates ==
    PayoutUpdates \cup
    { [ NoUpdate EXCEPT !.space_truth = Some(SpaceTruthData(-20, "moderate_stress")) ],
      [ NoUpdate EXCEPT !.verification_result = Some(RejectingResult) ] }

\* the updates that attach evidence
EvidenceUpdates == { u \in ClaimUpdates : u.space_truth # None }

\* bool(s) of an optional string: None and "" are falsy
TruthyText(o) == o # None /\ o[1] # ""

\* an update that adds the score of a decision to the score the claim
\* carries, for C13
update_claim_adding(c, u) ==
    LET c1 == IF u.status # None THEN [c EXCEPT !.status = u.status[1]] ELSE c
        c2 == IF u.space_truth # None
              THEN [c1 EXCEPT !.ndmi_value = Some(u.space_truth[1].ndmi_value),
                              !.ndmi_14day_avg = Some(u.space_truth[1].ndmi_14day_avg),
                              !.satellite_verdict = Some(u.space_truth[1].satellite_verdict),
                              !.observation_date = Some(u.space_truth[1].observation_date),
                              !.cloud_cover_pct = Some(u.space_truth[1].cloud_cover_pct)]
              ELSE c1
        c3 == IF u.verification_result # None
              THEN LET v == u.verification_result[1]
                   IN  [c2 EXCEPT !.weighted_score =
                                      IF c.weighted_score = None
                                      THEN Some(v.weighted_score)
                                      ELSE Some(c.weighted_score[1] + v.weighted_score),
                                  !.status = v.status,
                                  !.verdict_explanation = Some(v.verdict_explanation),
                                  !.ground_truth_confidence = Some(v.ground_truth_confidence),
                                  !.space_truth_confidence = Some(v.space_truth_confidence)]
              ELSE c2
        c4 == IF u.payout_amount # None
              THEN [c3 EXCEPT !.payout_amount = u.payout_amount] ELSE c3
        c5 == IF TruthyText(u.payout_status)
              THEN [c4 EXCEPT !.payout_status = u.payout_status] ELSE c4
    IN  IF Truthy(u.payout_reference)
        THEN [c5 EXCEPT !.payout_reference = u.payout_reference] ELSE c5

\* ClaimService.update_claim: the row after the update.  The status of the
\* decision is written after the update's own status; an amount is written
\* when it is not None, a payout status and a reference when they are truthy.
update_claim(c, u) ==
    LET c1 == IF u.status # None THEN [c EXCEPT !.status = u.status[1]] ELSE c
        c2 == IF u.space_truth # None
              THEN [c1 EXCEPT !.ndmi_value = Some(u.space_truth[1].ndmi_value),
                              !.ndmi_14day_avg = Some(u.space_truth[1].ndmi_14day_avg),
                              !.satellite_verdict = Some(u.space_truth[1].satellite_verdict),
                              !.observation_date = Some(u.space_truth[1].observation_date),
                              !.cloud_cover_pct = Some(u.space_truth[1].cloud_cover_pct)]
              ELSE c1
        c3 == IF u.verification_result # None
              THEN LET v == u.verification_result[1]
                   IN  [c2 EXCEPT !.weighted_score = Some(v.weighted_score),
                                  !.status = v.status,
                                  !.verdict_explanation = Some(v.verdict_explanation),
                                  !.ground_truth_confidence = Some(v.ground_truth_confidence),
                                  !.space_truth_confidence = Some(v.space_truth_confidence)]
              ELSE c2
        c4 == IF u.payout_amount # None
              THEN [c3 EXCEPT !.payout_amount = u.payout_amount] ELSE c3
        c5 == IF TruthyText(u.payout_status)
              THEN [c4 EXCEPT !.payout_status = u.payout_status] ELSE c4
    IN  IF Truthy(u.payout_reference)
        THEN [c5 EXCEPT !.payout_reference = u.payout_reference] ELSE c5

\* The columns of the claim that create_claim sets and no entry point
\* modelled here writes: the ground observation of the submission, of which
\* the adjudication task reads the class, its confidence and the top three,
\* and the time of creation; and the location of the claim's farm.
SubmittedGroundTruth ==
    [ ml_class |-> "drought_stress", ml_confidence |-> 87, top_three_classes |-> << >> ]
CreatedAt == [ month |-> 1, day |-> 1, hour |-> 9 ]
FarmLocation == [ lat |-> -129212, lng |-> 3682190 ]

\* whether the provider has an image of the claim's window under 20% cloud
Imagery == {"available", "none"}

\* what Earth Engine answers to a query in either case
answers_for(imagery) ==
    IF imagery = "available"
    THEN Answers(AllOk, AllOk, AllOk, AllOk, DefaultReading)
    ELSE Answers(<<"NoImagery", "ok", "ok">>, AllOk, AllOk, AllOk, DefaultReading)

\* Redis as the task's process reaches it
TaskRedis == [ read |-> TRUE, write |-> TRUE ]

\* the call of line 63 with `await` in front of it, for C12: verify_claim
\* runs, and the task gets the SpaceTruth it returns or the exception it
\* raises
verify_claim_call_awaited(r) ==
    [ type |-> IF r.ended = "ok" THEN "SpaceTruth" ELSE "raised", ran |-> TRUE,
      value |-> r.result ]

\* What line 63 binds to space_truth, r being what verify_claim does when it
\* runs.  satellite_service.verify_claim is declared `async def` and the task
\* calls it without awaiting: the call returns a coroutine object and runs
\* none of verify_claim's body (no cache read, no provider query, no cache
\* write), so it raises nothing either.
verify_claim_call(r) == [ type |-> "coroutine", ran |-> FALSE, value |-> None ]

\* ClaimUpdate.space_truth is declared `SpaceTruthData | None`: pydantic
\* accepts an instance of that class or a dict, nothing else.
ClaimUpdate_accepts_space_truth(v) == v.type \in {"SpaceTruthData", "dict"}

\* the sum of the numbers of a sequence
RECURSIVE Sum(_)
Sum(seq) == IF seq = << >> THEN 0 ELSE Head(seq) + Sum(Tail(seq))

\* What the evidence task does besides its outcome: the remote calls made
\* during it, and whether it asked to be run again (self.retry, line 67).
satellite_task_detail(imagery, calls, rescheduled) ==
    [ imagery |-> imagery, remote_calls |-> Sum(calls), rescheduled |-> rescheduled ]

\* process_claim_satellite_verification, lines 46-95, on the stored row c
\* with the cache `store`: the outcome ("ok" or the exception that leaves the
\* task), the row and the cache afterwards.  An exception of the call of
\* line 63 goes to self.retry (64-67); a ValidationError of ClaimUpdate
\* (70-72) is re-raised at line 91 without self.retry; otherwise update_claim
\* writes the evidence (73).
satellite_task_from(c, store, imagery, r) ==
    LET space_truth == verify_claim_call(r)
        calls == IF space_truth.ran THEN r.calls ELSE << >>
        kept == IF space_truth.ran THEN r.store ELSE store
    IN  IF space_truth.type = "raised"
        THEN [ result |-> r.ended, claim |-> c, store |-> kept,
               detail |-> satellite_task_detail(imagery, calls, TRUE) ]
        ELSE IF ~ClaimUpdate_accepts_space_truth(space_truth)
        THEN [ result |-> "ValidationError", claim |-> c, store |-> kept,
               detail |-> satellite_task_detail(imagery, calls, FALSE) ]
        ELSE [ result |-> "ok",
               claim |-> update_claim(c, [ NoUpdate EXCEPT !.space_truth = space_truth.value ]),
               store |-> kept,
               detail |-> satellite_task_detail(imagery, calls, FALSE) ]

satellite_task(c, store, imagery) ==
    satellite_task_from(c, store, imagery,
                        verify_claim(store, FarmLocation.lat, FarmLocation.lng, CreatedAt,
                                     TaskRedis, answers_for(imagery)))

\* fields GroundTruth (schemas/verification.py) declares without a default
GroundTruth_required ==
    { "image_url", "ml_class", "ml_confidence", "top_three_classes", "device_tilt",
      "device_azimuth", "capture_gps_lat", "capture_gps_lng", "capture_timestamp" }

\* keyword arguments process_claim_weighted_algorithm passes to GroundTruth
GroundTruth_passed ==
    { "ml_class", "ml_confidence", "top_three_classes", "device_tilt",
      "device_azimuth", "capture_gps_lat", "capture_gps_lng" }

\* the class of the object that WeightedVerificationService.verify returns:
\* WeightedVerificationResult of schemas/verification.py (score, explanation,
\* rule_applied)
verify_returns == [ type |-> "verification.WeightedVerificationResult" ]

\* ClaimUpdate.verification_result is declared with the class of the same
\* name of schemas/claim.py (weighted_score, verdict_explanation): pydantic
\* accepts an instance of that class or a dict with its fields.
ClaimUpdate_accepts_verification_result(v) ==
    v.type \in {"claim.WeightedVerificationResult", "dict"}

\* the SpaceTruth that lines 142-148 build from the columns of the claim
space_truth_of(c) ==
    [ ndmi_value |-> c.ndmi_value[1], ndmi_14day_avg |-> c.ndmi_14day_avg[1],
      observation_date |-> c.observation_date[1],
      cloud_cover_pct |-> c.cloud_cover_pct[1], verdict |-> c.satellite_verdict[1] ]

\* process_claim_weighted_algorithm, lines 116-183, on the stored row c: the
\* outcome ("ok" or the exception that leaves the task) and the row
\* afterwards.  The task raises ValueError for a claim whose index is None
\* or 0.0 (126); GroundTruth is built without image_url and
\* capture_timestamp (130-138) and raises ValidationError; the engine is
\* called on the rebuilt evidence (152-156) and its result goes through
\* ClaimUpdate (162) into update_claim (165).
weighted_task(c) ==
    LET verification_result ==
            verify(NewService, SubmittedGroundTruth, space_truth_of(c), Some(CreatedAt))
    IN  IF ~Truthy(c.ndmi_value)
        THEN [ result |-> "ValueError", claim |-> c ]
        ELSE IF ~(GroundTruth_required \subseteq GroundTruth_passed)
        THEN [ result |-> "ValidationError", claim |-> c ]
        ELSE IF ~ClaimUpdate_accepts_verification_result(verify_returns)
        THEN [ result |-> "ValidationError", claim |-> c ]
        ELSE [ result |-> "ok",
               claim |-> update_claim(c, [ NoUpdate EXCEPT
                             !.verification_result = Some(verification_result) ]) ]

----------------------------------------------------------------------------
(* Actions of the entry points *)

\* PATCH /claims/{id}/status -> ClaimService.update_claim_status
UpdateClaimStatus(new_status) ==
    /\ claim' = [claim EXCEPT !.status = new_status]
    /\ last' = Wrote("update_claim_status", new_status)
    /\ workers' = [workers EXCEPT !.procs = others_see(@, 0, TRUE)]
    /\ UNCHANGED <<farm_phone, payment_log, next_txn, cycles, cache, sat, engine, broker>>

\* ClaimService.update_claim called with a ClaimUpdate, on a worker process
\* as the tasks call it
UpdateClaim(w, update_data) ==
    /\ workers.procs[w].pc = "idle"
    /\ claim' = update_claim(claim, update_data)
    /\ last' = Wrote("update_claim", update_data)
    /\ workers' = [workers EXCEPT !.procs = others_see(@, w, TRUE), !.updates = @ + 1]
    /\ UNCHANGED <<farm_phone, payment_log, next_txn, cycles, cache, sat, engine, broker>>

\* the record of a task run: as Quiet, with the row as the task left it and
\* the task's own detail
Stage(op, pre, post, result, detail) ==
    [ op |-> op, pre |-> pre, post |-> post, result |-> result, attempts |-> 0,
      notified |-> 0, logged |-> << >>, sleeps |-> << >>, results |-> << >>,
      sms |-> "none", alone |-> TRUE, unsaved |-> 0,
      transaction_id |-> NoTransactionId, stage |-> detail ]

\* task process_claim_satellite_verification (fetchEvidence)
ProcessClaimSatelliteVerification(w, imagery) ==
    \E t \in { satellite_task(claim, cache, imagery) } :
        /\ workers.procs[w].pc = "idle"
        /\ claim' = t.claim
        /\ cache' = t.store
        /\ last' = Stage("process_claim_satellite_verification", claim, t.claim,
                         t.result, t.detail)
        /\ workers' = [workers EXCEPT !.procs =
                          others_see(@, w, claim' # claim \/ cache' # cache)]
        /\ UNCHANGED <<farm_phone, payment_log, next_txn, cycles, sat, engine, broker>>

\* What the record of an adjudication run keeps besides its outcome: the row
\* as the run before it left it, when that run was an adjudication too and
\* nothing ran in between.
weighted_task_detail ==
    [ before |-> IF last.op = "process_claim_weighted_algorithm"
                 THEN Some(last.post) ELSE None ]

\* task process_claim_weighted_algorithm (adjudicate)
ProcessClaimWeightedAlgorithm(w) ==
    \E t \in { weighted_task(claim) } :
        /\ workers.procs[w].pc = "idle"
        /\ claim' = t.claim
        /\ last' = Stage("process_claim_weighted_algorithm", claim, t.claim,
                         t.result, weighted_task_detail)
        /\ workers' = [workers EXCEPT !.procs = others_see(@, w, claim' # claim)]
        /\ UNCHANGED <<farm_phone, payment_log, next_txn, cycles, cache, sat, engine, broker>>

\* the id the claim was submitted under, a string
ClaimId == [ type |-> "str", of |-> "claim_id" ]

ChainedTasks ==
    << "process_claim_satellite_verification", "process_claim_weighted_algorithm",
       "process_claim_payment" >>

\* celery.chain: a linked task is applied with the return value of its
\* parent placed before the arguments of its own signature
linked_args(parent_result, signature_args) == << parent_result >> \o signature_args

\* the arguments bound to the parameters (claim_id, second = None) of a task
bound(task, args) ==
    [ task |-> task, claim_id |-> args[1],
      second |-> IF Len(args) > 1 THEN Some(args[2]) ELSE None ]

\* UUID(claim_id), the first use each task makes of its argument (lines 49,
\* 121, 219): for a dict it raises AttributeError
UUID_raises(claim_id) == claim_id.type # "str"

\* the status guard of task process_claim_payment
task_skips(c) == c.status # "auto_approved"

\* What stage k of the chain does with the arguments bound to it: the
\* outcome, the row and the cache afterwards.  Each task starts with
\* UUID(claim_id), which raises for anything but a string; with the id,
\* stages 1 and 2 are the tasks invoked directly.  Stage 3 is given up to
\* its call of process_payout (lines 216-243), which writes nothing: for a
\* claim that is not approved the task returns, for an approved one the
\* outcome is the call, which the steps of process_payout carry out.
chained_task(k, c, store, call, imagery) ==
    LET nothing == satellite_task_detail(imagery, << >>, FALSE)
    IN  IF UUID_raises(call.claim_id)
        THEN [ result |-> "AttributeError", claim |-> c, store |-> store,
               detail |-> nothing ]
        ELSE IF k = 1 THEN satellite_task(c, store, imagery)
        ELSE IF k = 2
        THEN [ store |-> store, detail |-> weighted_task_detail ] @@ weighted_task(c)
        ELSE IF task_skips(c)
        THEN [ result |-> "ok", claim |-> c, store |-> store, detail |-> nothing ]
        ELSE [ result |-> "process_payout", claim |-> c, store |-> store,
               detail |-> nothing ]

\* a chain as apply_async queues it: its first stage waits to be applied
NewChain == [ stage |-> 1, parent |-> None, ran |-> << >> ]

\* task process_claim_workflow: builds the chain of the three stages, queues
\* it and returns the AsyncResult; no stage runs during the call
ProcessClaimWorkflow(w) ==
    /\ workers.procs[w].pc = "idle"
    /\ Len(broker.queue) < MaxChains
    /\ broker' = [broker EXCEPT !.queue = Append(@, NewChain)]
    /\ last' = Stage("process_claim_workflow", claim, claim, "AsyncResult",
                     [ queued |-> ChainedTasks, ran |-> << >> ])
    /\ UNCHANGED <<claim, farm_phone, payment_log, next_txn, cycles, cache, sat, engine,
                   workers>>

\* the record of a task run that a chain applied: the record of the task,
\* with the calls the chain has made so far and whether this one ended it
Chained(record, chain) ==
    [ f \in DOMAIN record \cup {"chain"} |-> IF f = "chain" THEN chain ELSE record[f] ]

\* the queue without its i-th chain
without(queue, i) == SubSeq(queue, 1, i - 1) \o SubSeq(queue, i + 1, Len(queue))

\* Worker w applies the stage that chain i of the queue waits for.  A stage
\* that raises ends the chain, the stages after it are not applied; a stage
\* that returns queues the next one, linked to its result.  The last stage,
\* applied to an approved claim, goes on into process_payout with the task's
\* session, as the task invoked directly does.
RunChainedTask(w, i, imagery) ==
    LET ch == broker.queue[i]
        k == ch.stage
        args == IF k = 1 THEN << ClaimId >> ELSE linked_args(ch.parent, << ClaimId >>)
        call == bound(ChainedTasks[k], args)
        ran == Append(ch.ran, call)
    IN  \E t \in { chained_task(k, claim, cache, call, imagery) } :
        LET goes_on == t.result = "ok" /\ k < Len(ChainedTasks)
        IN
        /\ workers.procs[w].pc = "idle"
        /\ IF t.result = "process_payout"
           THEN /\ cycles < MaxCycles
                /\ cycles' = cycles + 1
                /\ workers' = [workers EXCEPT !.procs[w] = PayoutCall(ChainedTasks[k], claim)]
                /\ last' = Under(ChainedTasks[k])
                /\ broker' = [broker EXCEPT !.queue = without(@, i)]
                /\ UNCHANGED <<claim, cache>>
           ELSE /\ claim' = t.claim
                /\ cache' = t.store
                /\ last' = Chained(Stage(ChainedTasks[k], claim, t.claim, t.result, t.detail),
                                   [ ran |-> ran, ended |-> ~goes_on ])
                /\ broker' =
                      IF goes_on
                      THEN [broker EXCEPT !.queue[i] =
                              [ stage |-> k + 1,
                                parent |-> [ type |-> "dict", of |-> ChainedTasks[k] ],
                                ran |-> ran ]]
                      ELSE [broker EXCEPT !.queue = without(@, i)]
                /\ workers' = [workers EXCEPT !.procs =
                                  others_see(@, w, claim' # claim \/ cache' # cache)]
                /\ UNCHANGED cycles
        /\ UNCHANGED <<farm_phone, payment_log, next_txn, sat, engine>>

\* task process_claim_payment (executePayout), lines 216-233: the task reads
\* the claim and returns at once for a claim that is not approved; for an
\* approved one it goes on to call process_payout with its own session,
\* which holds the claim as the task loaded it
ProcessClaimPayment(w) ==
    /\ workers.procs[w].pc = "idle"
    /\ IF task_skips(claim)
       THEN /\ last' = Quiet("process_claim_payment", claim, "False")
            /\ UNCHANGED <<cycles, workers>>
       ELSE /\ cycles < MaxCycles
            /\ cycles' = cycles + 1
            /\ workers' = [workers EXCEPT !.procs[w] =
                              PayoutCall("process_claim_payment", claim)]
            /\ last' = Under("process_claim_payment")
    /\ UNCHANGED <<claim, farm_phone, payment_log, next_txn, cache, sat, engine, broker>>

\* PaymentService.retry_failed_payment (retryManualPayout), lines 181-192:
\* it reads the claim and refuses one whose payout status is not
\* failed_manual_review_required; otherwise it goes on to reset the status
RetryFailedPayment(w) ==
    /\ workers.procs[w].pc = "idle"
    /\ IF retry_refused(claim)
       THEN /\ last' = Quiet("retry_failed_payment", claim, "False")
            /\ UNCHANGED <<cycles, workers>>
       ELSE /\ cycles < MaxCycles
            /\ cycles' = cycles + 1
            /\ workers' = [workers EXCEPT !.procs[w] =
                              [ PayoutCall("retry_failed_payment", claim) EXCEPT
                                  !.pc = "reset" ]]
            /\ last' = Under("retry_failed_payment")
    /\ UNCHANGED <<claim, farm_phone, payment_log, next_txn, cache, sat, engine, broker>>

\* retry_failed_payment, lines 195-198: the payout status pending is
\* committed to the stored row, whatever the row holds by now, and the call
\* goes on into process_payout; the commit expires the instance
ResetPending(w) ==
    LET me == workers.procs[w]
    IN  /\ me.pc = "reset"
        /\ claim' = committed(me.held, reset_pending, claim)
        /\ workers' = [workers EXCEPT !.procs =
                          [ others_see(@, w, TRUE) EXCEPT
                              ![w] = [ me EXCEPT !.pc = "enter", !.held = None ] ]]
        /\ last' = Under(me.op)
        /\ UNCHANGED <<farm_phone, payment_log, next_txn, cycles, cache, sat, engine, broker>>

\* PaymentService.process_payout, lines 59-84, called directly (an idle
\* worker) or by the task or the retry (a worker at "enter"): it queries the
\* claim, returns False when the instance it gets is not approved, and
\* otherwise takes the amount to pay from it.  Called by the task, it gets
\* the instance the task loaded (claim_tasks.py:219), since no commit lies
\* between; called by the retry, it loads the stored row.  From here on the
\* call reads no column of the instance; the session holds the instance as
\* it was loaded until its next commit.
ProcessPayout(w) ==
    LET me == workers.procs[w]
        direct == me.pc = "idle"
        call == IF direct THEN PayoutCall("process_payout", claim) ELSE me
        row == query_claim(call, claim)
    IN  /\ me.pc \in {"idle", "enter"}
        /\ IF payout_skips(row)
           THEN /\ last' = Ran(call, claim, FALSE, "none")
                /\ workers' = [workers EXCEPT !.procs[w] = IdleWorker]
                /\ UNCHANGED cycles
           ELSE /\ direct => cycles < MaxCycles
                /\ cycles' = IF direct THEN cycles + 1 ELSE cycles
                /\ workers' = [workers EXCEPT !.procs[w] =
                                  [ call EXCEPT
                                      !.pc = IF amount_unset(row) THEN "amount" ELSE "loop",
                                      !.amount = amount_to_pay(row),
                                      !.held = Some(row) ]]
                /\ last' = Under(call.op)
        /\ UNCHANGED <<claim, farm_phone, payment_log, next_txn, cache, sat, engine, broker>>

\* process_payout, lines 84-86, for a claim that had no amount when the
\* call queried it: the amount and, unless the instance was loaded with it,
\* the payout status pending are committed to the stored row, whatever the
\* row holds by now
CommitAmount(w) ==
    LET me == workers.procs[w]
    IN  /\ me.pc = "amount"
        /\ claim' = committed(me.held, with_amount(me.amount), claim)
        /\ workers' = [workers EXCEPT !.procs =
                          [ others_see(@, w, claim' # claim) EXCEPT
                              ![w] = [ me EXCEPT !.pc = "loop", !.held = None ] ]]
        /\ last' = Under(me.op)
        /\ UNCHANGED <<farm_phone, payment_log, next_txn, cycles, cache, sat, engine, broker>>

\* where the loop goes after the pass numbered me.attempt ended without a
\* return, by a result that is no success or by an exception
goes_on(me) ==
    [ me EXCEPT !.pc = pc_after(me.attempt), !.sleeps = sleeps_with(@, me.attempt),
                !.attempt = @ + 1 ]

\* One call of send_payment by the loop (line 96), which commits the row it
\* logs, and what the loop does with a result that is not a success or with
\* an exception (lines 129-151): it awaits the backoff and goes on.  In a
\* session that a failed commit left inactive no row is logged and the
\* session is rolled back, which makes it usable again; the transfer is
\* reported as it went.
SendPayment(w, outcome) ==
    LET me == workers.procs[w]
        r == send_payment(farm_phone, me.amount, outcome, next_txn, ~me.inactive)
        kind == attempt_kind(r)
        sent == [ me EXCEPT !.results = Append(@, kind), !.logged = @ \o r.logged,
                            !.held = IF r.log_called THEN None ELSE @,
                            !.inactive = IF r.log_called THEN FALSE ELSE @ ]
    IN  /\ me.pc = "loop"
        /\ payment_log' = payment_log \o r.logged
        /\ next_txn' = r.next_txn
        /\ workers' =
              [ workers EXCEPT
                  !.procs =
                      [ others_see(@, w, r.logged # << >>) EXCEPT
                          ![w] = IF kind = "success"
                                 THEN [ sent EXCEPT !.pc = "paid",
                                                    !.transaction_id = r.transaction_id,
                                                    !.sent_while = Some(claim.status) ]
                                 ELSE goes_on(sent) ] ]
        /\ last' = Under(me.op)
        /\ UNCHANGED <<claim, farm_phone, cycles, cache, sat, engine, broker>>

\* After a transfer that went through (lines 103-108): the claim is marked
\* paid and committed.  When the commit raises (saved = FALSE), nothing is
\* written, the session is left inactive, and the handler of line 142 takes
\* over as for any exception of the pass.
MarkPaid(w, saved) ==
    LET me == workers.procs[w]
    IN  /\ me.pc = "paid"
        /\ saved \/ workers.unsaved < MaxUnsaved
        /\ claim' = IF saved
                    THEN committed(me.held, mark_paid(me.transaction_id), claim)
                    ELSE claim
        /\ workers' =
              [ workers EXCEPT
                  !.procs = [ others_see(@, w, saved) EXCEPT
                                ![w] = IF saved THEN [ me EXCEPT !.pc = "notify" ]
                                       ELSE goes_on([ me EXCEPT !.inactive = TRUE,
                                                                !.unsaved = @ + 1 ]) ],
                  !.unsaved = IF saved THEN @ ELSE @ + 1 ]
        /\ last' = Under(me.op)
        /\ UNCHANGED <<farm_phone, payment_log, next_txn, cycles, cache, sat, engine, broker>>

\* The notification of the farmer (lines 115-127), awaited after the commit
\* of the paid state: whatever the gateway does, the call returns True.
SendPaymentNotification(w, sms) ==
    LET me == workers.procs[w]
        told == [ me EXCEPT !.notified = @ + 1 ]
    IN  /\ me.pc = "notify"
        /\ IF ~notification_escapes(sms)
           THEN /\ last' = Ran(told, claim, TRUE, sms)
                /\ workers' = [workers EXCEPT !.procs[w] = IdleWorker]
           ELSE /\ last' = Under(me.op)
                /\ workers' = [workers EXCEPT !.procs[w] = goes_on(told)]
        /\ UNCHANGED <<claim, farm_phone, payment_log, next_txn, cycles, cache, sat, engine,
                       broker>>

\* After the last pass of the loop (lines 153-162): the claim is flagged for
\* manual processing and the call returns False.  In a session that a failed
\* commit left inactive the commit of line 160 raises: nothing is written and
\* the exception leaves process_payout (the task hands it to self.retry, the
\* manual retry lets it pass).
FlagManual(w) ==
    LET me == workers.procs[w]
    IN  /\ me.pc = "flag"
        /\ claim' = IF me.inactive THEN claim
                    ELSE committed(me.held, flag_manual, claim)
        /\ last' = IF me.inactive THEN Raised(me, claim', "PendingRollbackError")
                   ELSE Ran(me, claim', FALSE, "none")
        /\ workers' = [workers EXCEPT !.procs =
                          [ others_see(@, w, claim' # claim) EXCEPT ![w] = IdleWorker ]]
        /\ UNCHANGED <<farm_phone, payment_log, next_txn, cycles, cache, sat, engine, broker>>

\* In Spec one worker process runs the calls, one at a time; the status
\* update comes from the API process and falls anywhere.  RaceSpec has two
\* worker processes.
OneWorker == {1}

Next ==
    \/ \E s \in ClaimStatus : UpdateClaimStatus(s)
    \/ /\ workers.updates < MaxStageUpdates
       /\ \E w \in OneWorker : \E update_data \in ClaimUpdates : UpdateClaim(w, update_data)
    \/ \E w \in OneWorker : \E imagery \in Imagery :
          ProcessClaimSatelliteVerification(w, imagery)
    \/ \E w \in OneWorker : ProcessClaimWeightedAlgorithm(w)
    \/ \E w \in OneWorker : ProcessClaimWorkflow(w)
    \/ \E w \in OneWorker : \E i \in DOMAIN broker.queue : \E imagery \in Imagery :
          RunChainedTask(w, i, imagery)
    \/ \E w \in OneWorker : ProcessClaimPayment(w)
    \/ \E w \in OneWorker : ProcessPayout(w)
    \/ \E w \in OneWorker : CommitAmount(w)
    \/ \E w \in OneWorker : RetryFailedPayment(w)
    \/ \E w \in OneWorker : ResetPending(w)
    \/ \E w \in OneWorker : \E outcome \in AttemptOutcomes : SendPayment(w, outcome)
    \/ \E w \in OneWorker : \E saved \in BOOLEAN : MarkPaid(w, saved)
    \/ \E w \in OneWorker : \E sms \in SmsOutcomes : SendPaymentNotification(w, sms)
    \/ \E w \in OneWorker : FlagManual(w)

Spec == Init /\ [][Next]_vars

\* The payout entry points with the two writers of the claim row: the
\* status update, and update_claim with the updates of PayoutUpdates.
PayoutNext ==
    \/ \E s \in ClaimStatus : UpdateClaimStatus(s)
    \/ /\ workers.updates < MaxUpdates
       /\ \E w \in OneWorker : \E update_data \in PayoutUpdates : UpdateClaim(w, update_data)
    \/ \E w \in OneWorker : ProcessClaimPayment(w)
    \/ \E w \in OneWorker : ProcessPayout(w)
    \/ \E w \in OneWorker : CommitAmount(w)
    \/ \E w \in OneWorker : RetryFailedPayment(w)
    \/ \E w \in OneWorker : ResetPending(w)
    \/ \E w \in OneWorker : \E outcome \in AttemptOutcomes : SendPayment(w, outcome)
    \/ \E w \in OneWorker : \E saved \in BOOLEAN : MarkPaid(w, saved)
    \/ \E w \in OneWorker : \E sms \in SmsOutcomes : SendPaymentNotification(w, sms)
    \/ \E w \in OneWorker : FlagManual(w)

PayoutSpec == Init /\ [][PayoutNext]_vars

\* The four stage entry points with the status update: the payout entry
\* points together with the tasks of the first two stages, which are invoked
\* on the claim in whatever state the payout calls and the status update
\* leave it.
PipelineNext ==
    \/ \E s \in ClaimStatus : UpdateClaimStatus(s)
    \/ \E w \in OneWorker : \E imagery \in Imagery :
          ProcessClaimSatelliteVerification(w, imagery)
    \/ \E w \in OneWorker : ProcessClaimWeightedAlgorithm(w)
    \/ \E w \in OneWorker : ProcessClaimPayment(w)
    \/ \E w \in OneWorker : ProcessPayout(w)
    \/ \E w \in OneWorker : CommitAmount(w)
    \/ \E w \in OneWorker : RetryFailedPayment(w)
    \/ \E w \in OneWorker : ResetPending(w)
    \/ \E w \in OneWorker : \E outcome \in AttemptOutcomes : SendPayment(w, outcome)
    \/ \E w \in OneWorker : \E saved \in BOOLEAN : MarkPaid(w, saved)
    \/ \E w \in OneWorker : \E sms \in SmsOutcomes : SendPaymentNotification(w, sms)
    \/ \E w \in OneWorker : FlagManual(w)

PipelineSpec == Init /\ [][PipelineNext]_vars

\* The tasks of the first two stages and the workflow, with the two writers
\* of the claim row: update_claim is what puts evidence on a claim.
StageNext ==
    \/ \E s \in ClaimStatus : UpdateClaimStatus(s)
    \/ /\ workers.updates < MaxStageUpdates
       /\ \E w \in OneWorker : \E update_data \in ClaimUpdates : UpdateClaim(w, update_data)
    \/ \E w \in OneWorker : \E imagery \in Imagery :
          ProcessClaimSatelliteVerification(w, imagery)
    \/ \E w \in OneWorker : ProcessClaimWeightedAlgorithm(w)
    \/ \E w \in OneWorker : ProcessClaimWorkflow(w)
    \/ \E w \in OneWorker : \E i \in DOMAIN broker.queue : \E imagery \in Imagery :
          RunChainedTask(w, i, imagery)

StageSpec == Init /\ [][StageNext]_vars

----------------------------------------------------------------------------
(* The evidence side on its own: calls into SatelliteService and GEEClient *)

\* farm locations and claim dates asked about: two locations 0.00002 degree
\* apart in latitude, on the same day at different hours
Requests ==
    { [ lat |-> -129212, lng |-> 3682190, claim_date |-> [day |-> 1, hour |-> 9] ],
      [ lat |-> -129214, lng |-> 3682190, claim_date |-> [day |-> 1, hour |-> 17] ] }

\* a call of verify_claim that missed the cache and is about to query the
\* provider: what it asked for, what Redis does for it, and the entry it
\* found under its key (none on a miss by a working Redis)
VerifyCall(request, redis, cache_key, cached) ==
    [ pc |-> "query", op |-> "verify_claim", request |-> request, redis |-> redis,
      cache_key |-> cache_key, cached |-> cached, alone |-> TRUE ]

\* the entry the store holds under a key, if any
entry_of(store, cache_key) ==
    IF cache_key \in DOMAIN store THEN Some(store[cache_key]) ELSE None

\* await satellite_service.verify_claim(lat, lng, claim_date), lines 254-260:
\* the lookup in the cache, which ends the call on a hit
VerifyClaim(w, request, redis) ==
    LET cache_key == generate_cache_key(request.lat, request.lng, request.claim_date)
        cached_result == get_cached_result(cache, cache_key, redis)
    IN  /\ workers.procs[w].pc = "idle"
        /\ IF cached_result # None
           THEN /\ sat' = [ op |-> "verify_claim", request |-> request, redis |-> redis,
                            answers |-> None, cache_key |-> cache_key,
                            cached |-> entry_of(cache, cache_key),
                            ended |-> "ok", result |-> cached_result,
                            from_cache |-> TRUE, calls |-> << >>, alone |-> TRUE ]
                /\ UNCHANGED workers
           ELSE /\ workers' = [workers EXCEPT !.procs[w] =
                                  VerifyCall(request, redis, cache_key,
                                             entry_of(cache, cache_key))]
                /\ sat' = Under("verify_claim")
        /\ UNCHANGED <<claim, farm_phone, payment_log, next_txn, cycles, last, cache, engine,
                       broker>>

\* verify_claim after a miss, lines 262-275: the query of the provider, with
\* the sleeps of its retries, and then the write to the cache
QuerySatelliteData(w, answers) ==
    LET me == workers.procs[w]
        q == query_satellite_data(answers)
    IN  /\ me.pc = "query"
        /\ cache' = IF q.ended = "ok"
                    THEN cache_result(cache, me.cache_key, q.result[1], me.redis)
                    ELSE cache
        /\ sat' = [ op |-> "verify_claim", request |-> me.request, redis |-> me.redis,
                    answers |-> Some(answers), cache_key |-> me.cache_key,
                    cached |-> me.cached, ended |-> q.ended, result |-> q.result,
                    from_cache |-> FALSE, calls |-> q.calls, alone |-> me.alone ]
        /\ workers' = [workers EXCEPT !.procs =
                          [ others_see(@, w, cache' # cache) EXCEPT ![w] = IdleWorker ]]
        /\ UNCHANGED <<claim, farm_phone, payment_log, next_txn, cycles, last, engine, broker>>

\* Redis drops an entry when its time to live (CACHE_TTL) is over
CacheExpires(cache_key) ==
    /\ cache_key \in DOMAIN cache
    /\ cache' = [ k \in DOMAIN cache \ {cache_key} |-> cache[k] ]
    /\ sat' = [ op |-> "cache_expiry", cache_key |-> cache_key ]
    /\ workers' = [workers EXCEPT !.procs = others_see(@, 0, TRUE)]
    /\ UNCHANGED <<claim, farm_phone, payment_log, next_txn, cycles, last, engine, broker>>

\* gee_client.execute_with_retry(func)
ExecuteWithRetry(outcomes) ==
    LET r == execute_with_retry(outcomes)
    IN  /\ sat' = [ op |-> "execute_with_retry", outcomes |-> outcomes,
                    calls |-> r.calls, ended |-> r.ended, raised |-> r.raised,
                    returned |-> r.returned, delays |-> r.delays ]
        /\ UNCHANGED <<claim, farm_phone, payment_log, next_txn, cycles, last, cache, engine, workers, broker>>

\* moisture indices tried on _generate_verdict, in hundredths
NdmiInputs == {-100, -30, -21, -20, -19, -11, -10, -9, 0, 35, 100}

\* satellite_service._generate_verdict(ndmi_value)
GenerateVerdict(ndmi_value) ==
    /\ sat' = [ op |-> "_generate_verdict", ndmi_value |-> ndmi_value,
                verdict |-> generate_verdict(ndmi_value) ]
    /\ UNCHANGED <<claim, farm_phone, payment_log, next_txn, cycles, last, cache, engine, workers, broker>>

\* coordinates and dates tried on _generate_cache_key
Latitudes == {-129212, -129214, -129216, 4, 6, -4, 0}
Longitudes == {3682190, 3682194}
ClaimDates == { [day |-> 1, hour |-> 9], [day |-> 1, hour |-> 17], [day |-> 2, hour |-> 9] }

\* satellite_service._generate_cache_key(lat, lng, claim_date); the record
\* keeps the call before it, to compare the keys of two calls
GenerateCacheKey(lat, lng, claim_date) ==
    LET call == [ lat |-> lat, lng |-> lng, claim_date |-> claim_date,
                  key |-> generate_cache_key(lat, lng, claim_date) ]
    IN  /\ sat' = [ op |-> "_generate_cache_key", call |-> call,
                    before |-> IF sat.op = "_generate_cache_key"
                               THEN Some(sat.call) ELSE None ]
        /\ UNCHANGED <<claim, farm_phone, payment_log, next_txn, cycles, last, cache, engine, workers, broker>>

\* SpaceTruth records stored and read back
SpaceTruths ==
    { [ ndmi_value |-> n, ndmi_14day_avg |-> a, observation_date |-> d,
        cloud_cover_pct |-> CloudCoverPct, verdict |-> generate_verdict(n) ] :
      n \in {-21, -10}, a \in {-5, 0},
      d \in { ObservationDate, [day |-> 3, hour |-> 0] } }

\* _cache_result(key, result) followed by _get_cached_result(key), Redis up
CacheRoundTrip(request, result) ==
    LET up == [ read |-> TRUE, write |-> TRUE ]
        cache_key == generate_cache_key(request.lat, request.lng, request.claim_date)
    IN  /\ cache' = cache_result(cache, cache_key, result, up)
        /\ sat' = [ op |-> "cache_round_trip", stored |-> result, cache_key |-> cache_key,
                    retrieved |-> get_cached_result(cache', cache_key, up) ]
        /\ workers' = [workers EXCEPT !.procs = others_see(@, 0, TRUE)]
        /\ UNCHANGED <<claim, farm_phone, payment_log, next_txn, cycles, last, engine, broker>>

SatNext ==
    \/ \E w \in Workers : \E request \in Requests : \E redis \in RedisStates :
          VerifyClaim(w, request, redis)
    \/ \E w \in Workers : \E answers \in QueryAnswers : QuerySatelliteData(w, answers)
    \/ \E cache_key \in DOMAIN cache : CacheExpires(cache_key)

\* the claim's farm has a Kenyan number throughout
SatInit == Init /\ farm_phone = <<"+", "2", "5", "4", "7", "1", "2">>

SatSpec == SatInit /\ [][SatNext]_vars

\* The evidence on its way: calls of verify_claim that fill the cache,
\* updates that attach evidence to the claim, and the two tasks invoked on
\* the claim in whatever state these leave it and the cache.
EvidenceNext ==
    \/ \E w \in OneWorker : \E request \in Requests : \E redis \in RedisStates :
          VerifyClaim(w, request, redis)
    \/ \E w \in OneWorker : \E answers \in QueryAnswers : QuerySatelliteData(w, answers)
    \/ \E cache_key \in DOMAIN cache : CacheExpires(cache_key)
    \/ /\ workers.updates < MaxUpdates
       /\ \E w \in OneWorker : \E update_data \in EvidenceUpdates : UpdateClaim(w, update_data)
    \/ \E w \in OneWorker : \E imagery \in Imagery :
          ProcessClaimSatelliteVerification(w, imagery)
    \/ \E w \in OneWorker : ProcessClaimWeightedAlgorithm(w)

EvidenceSpec == SatInit /\ [][EvidenceNext]_vars

\* the pure helpers of the evidence side, each applied to inputs of its own
GeeNext ==
    \/ \E outcomes \in [1..GEE_MAX_RETRIES -> CallOutcomes] : ExecuteWithRetry(outcomes)
    \/ \E ndmi_value \in NdmiInputs : GenerateVerdict(ndmi_value)
    \/ \E lat \in Latitudes : \E lng \in Longitudes : \E claim_date \in ClaimDates :
          GenerateCacheKey(lat, lng, claim_date)
    \/ \E request \in Requests : \E result \in SpaceTruths : CacheRoundTrip(request, result)

GeeSpec == SatInit /\ [][GeeNext]_vars

----------------------------------------------------------------------------
(* Calls of WeightedVerificationService.verify *)

\* ml_confidence values on both sides of each threshold of the weighted
\* path (under a moderate verdict: 43 -> 0.498, 44 -> 0.504, 93 -> 0.798,
\* 94 -> 0.804)
Confidences == {43, 44, 80, 87, 93, 94}

\* no list, and a list of four of which three are printed
TopThrees(ml_class, ml_confidence) ==
    { << >>,
      << <<ml_class, ml_confidence>>, <<"common_rust", 12>>, <<"healthy", 8>>,
         <<"other", 1>> >> }

GroundTruthsOf(classes, confidences) ==
    UNION { { [ ml_class |-> c, ml_confidence |-> g, top_three_classes |-> t ] :
                t \in TopThrees(c, g) } : c \in classes, g \in confidences }

GroundTruths == GroundTruthsOf(CropCondition, Confidences)

\* indices on both sides of -0.2 and of -0.1
NdmiValues == {-25, -21, -20, -11, -10, -9, 5}

\* SpaceTruth has no validator that ties the verdict to the index: verify
\* accepts every pair
EvidenceOf(indices, verdicts) ==
    { [ ndmi_value |-> n, ndmi_14day_avg |-> -5, observation_date |-> ObservationDate,
        cloud_cover_pct |-> CloudCoverPct, verdict |-> v ] :
        n \in indices, v \in verdicts }

Evidence == EvidenceOf(NdmiValues, SatelliteVerdict)

\* claim_date: absent, or a day of January, February or March
VerifyDates ==
    { None } \cup { Some([ month |-> m, day |-> 15, hour |-> 10 ]) : m \in {1, 2, 3} }

\* One call of verify on the singleton.  verify and its helpers read the
\* weights and thresholds of the instance and assign no attribute of it.
Verify(ground_truth, space_truth, claim_date) ==
    /\ engine' =
          [ engine EXCEPT !.call =
              [ op |-> "verify", ground_truth |-> ground_truth,
                space_truth |-> space_truth, claim_date |-> claim_date,
                result |-> verify(engine.self, ground_truth, space_truth, claim_date) ] ]
    /\ UNCHANGED <<claim, farm_phone, payment_log, next_txn, cycles, last, cache, sat, workers,
                   broker>>

\* the inputs of one call, drawn from the sets above
EngineInit ==
    /\ claim = NewClaim
    /\ farm_phone = <<"+", "2", "5", "4", "7", "1", "2">>
    /\ payment_log = << >>
    /\ next_txn = 1
    /\ cycles = 0
    /\ last = Quiet("create_claim", NewClaim, "ok")
    /\ cache = EmptyCache
    /\ sat = NoCall
    /\ workers = NoWorkers
    /\ broker = NoChains
    /\ \E ground_truth \in GroundTruths : \E space_truth \in Evidence :
          \E claim_date \in VerifyDates :
             engine = [ NewEngine EXCEPT !.input =
                          [ ground_truth |-> ground_truth, space_truth |-> space_truth,
                            claim_date |-> claim_date ] ]

\* verify applied to the drawn inputs
EngineNext ==
    /\ engine.call = NoCall
    /\ Verify(engine.input.ground_truth, engine.input.space_truth, engine.input.claim_date)

EngineSpec == EngineInit /\ [][EngineNext]_vars

----------------------------------------------------------------------------
(* Payout calls of several worker processes on one approved claim.

   Each worker has its own database session and no call locks the row.
   process_payout queries the claim once (line 60), tests its status (66)
   and then runs its loop without reading the status again; every commit
   writes the columns the call set to the stored row, whatever another
   process committed since the query.  Here the commit of the paid state
   may fail, and a status update may fall between any two steps. *)

\* PATCH /claims/{id}/status while payout calls are in progress
UpdateStatusMeanwhile(new_status) ==
    /\ workers.updates < MaxUpdates
    /\ claim' = [claim EXCEPT !.status = new_status]
    /\ last' = Wrote("update_claim_status", new_status)
    /\ workers' = [workers EXCEPT !.procs = others_see(@, 0, TRUE), !.updates = @ + 1]
    /\ UNCHANGED <<farm_phone, payment_log, next_txn, cycles, cache, sat, engine, broker>>

\* an approved claim, before its first payout cycle or after one that
\* exhausted its attempts
ApprovedClaims ==
    { [ NewClaim EXCEPT !.status = "auto_approved" ],
      [ NewClaim EXCEPT !.status = "auto_approved",
                        !.payout_amount = Some(DEFAULT_PAYOUT_AMOUNT),
                        !.payout_status = Some("failed_manual_review_required") ] }

RaceInit ==
    /\ claim \in ApprovedClaims
    /\ farm_phone = <<"+", "2", "5", "4", "7", "1", "2">>
    /\ payment_log = << >>
    /\ next_txn = 1
    /\ cycles = 0
    /\ last = Wrote("update_claim_status", "auto_approved")
    /\ cache = EmptyCache
    /\ sat = NoCall
    /\ engine = NewEngine
    /\ workers = NoWorkers
    /\ broker = NoChains

\* the provider answers every attempt, the update withdraws the approval,
\* the notification is delivered
RaceOutcomes == {"success", "failure"}
Withdrawals == {"rejected"}
Delivered == {"sent"}

RaceNext ==
    \/ \E w \in Workers : ProcessPayout(w)
    \/ \E w \in Workers : CommitAmount(w)
    \/ \E w \in Workers : RetryFailedPayment(w)
    \/ \E w \in Workers : ResetPending(w)
    \/ \E w \in Workers : \E outcome \in RaceOutcomes : SendPayment(w, outcome)
    \/ \E w \in Workers : \E saved \in BOOLEAN : MarkPaid(w, saved)
    \/ \E w \in Workers : \E sms \in Delivered : SendPaymentNotification(w, sms)
    \/ \E w \in Workers : FlagManual(w)
    \/ \E s \in Withdrawals : UpdateStatusMeanwhile(s)

RaceSpec == RaceInit /\ [][RaceNext]_vars

-----------------------------------------------------------------------------
\* Properties of the payout stage.  They are stated over `last`, the record
\* of the entry point that returned last: the claim as it found it (pre) and
\* as it left it (post), what it returned and what it did.  Where a
\* property says what a call leaves in columns that the call does not write
\* itself, it is stated for a call during which no other process wrote to
\* the claim (last.alone).

PayoutEntryPoints == {"process_claim_payment", "process_payout", "retry_failed_payment"}
AutomaticEntryPoints == {"process_claim_payment", "process_payout"}
StageEntryPoints ==
    PayoutEntryPoints \cup
    {"process_claim_satellite_verification", "process_claim_weighted_algorithm"}

Failed == Some("failed_manual_review_required")

\* C1: a paid claim is final.  Whatever stage entry point runs on a claim
\* whose status is paid (evidence fetch, adjudication, payout, manual
\* retry), and no other process writing to the claim meanwhile, the status
\* is still paid afterwards, no transfer attempt was made, nothing was
\* logged and no notification went out.
C1_PaidIsFinal ==
    (last.op \in StageEntryPoints /\ last.pre.status = "paid" /\ last.alone)
        => /\ last.post.status = "paid"
           /\ last.attempts = 0
           /\ last.logged = << >>
           /\ last.notified = 0

\* the manual retry got past its own guard on a paid claim and reached
\* process_payout, which refused
C1_Witness ==
    /\ last.op = "retry_failed_payment"
    /\ last.pre.status = "paid"
    /\ last.pre.payout_status = Failed
    /\ last.alone
    /\ last.post.status = "paid"

\* C2 (as the specification states it): once a claim's payout status is
\* failed_manual_review_required, an automatic entry point makes no transfer
\* attempt and leaves the claim as it is.
C2_FailedStaysParked ==
    (last.op \in AutomaticEntryPoints /\ last.pre.payout_status = Failed /\ last.alone)
        => /\ last.attempts = 0
           /\ last.post = last.pre

\* C3: on a claim that is not auto_approved the payout is a no-op: it
\* returns False, attempts no transfer, logs nothing, notifies nobody and
\* leaves the claim unchanged.
C3_NotApprovedNoOp ==
    (last.op \in AutomaticEntryPoints /\ last.pre.status # "auto_approved")
        => /\ last.result = "False"
           /\ last.post = last.pre
           /\ last.attempts = 0
           /\ last.logged = << >>
           /\ last.notified = 0

C3_Witness ==
    /\ last.op = "process_payout"
    /\ last.pre.status = "flagged_for_review"
    /\ last.result = "False"

AllFailed(results) ==
    /\ Len(results) = MAX_RETRIES
    /\ \A i \in 1..Len(results) : results[i] # "success"

\* C4: when all three attempts of a cycle fail (a failed result or an
\* exception), the payout returns False, the payout status is
\* failed_manual_review_required, the status stays auto_approved, no
\* reference is set (the field keeps the value it had, None on a claim that
\* was never paid) and no notification is sent.  The cycle writes neither
\* the status nor the reference: they stay as they were when no other
\* process writes them meanwhile.
C4_ExhaustedIsFlagged ==
    (last.op \in PayoutEntryPoints /\ AllFailed(last.results) /\ last.alone)
        => /\ last.result = "False"
           /\ last.post.payout_status = Failed
           /\ last.post.status = "auto_approved"
           /\ last.post.payout_reference = last.pre.payout_reference
           /\ last.notified = 0

\* a cycle that saw both kinds of failure
C4_Witness ==
    /\ last.op = "process_payout"
    /\ last.results = <<"failed", "raised", "failed">>
    /\ last.alone
    /\ last.post.payout_status = Failed

\* C5 (as the specification states it): every attempt that send_payment
\* answers, successful, failed or refused by validation, adds exactly one
\* row to the payment log.
C5_EveryAttemptLogged ==
    (/\ last.op \in PayoutEntryPoints
     /\ \A i \in 1..Len(last.results) : last.results[i] # "raised")
        => Len(last.logged) = last.attempts

FirstSuccess(results, k) ==
    /\ k \in 1..Len(results)
    /\ results[k] = "success"
    /\ \A j \in 1..(k - 1) : results[j] # "success"

\* the provider's id of the transfer that went through: the id on the last
\* row the cycle logged
SuccessfulTransactionId == last.logged[Len(last.logged)].transaction_id

\* C6 (as the specification states it): when the k-th attempt of a cycle is
\* the first to succeed, exactly k
\* attempts are made and none after it, exactly one notification is
\* dispatched, the payout returns True and the claim ends paid, with payout
\* status completed and the successful transfer's id as its reference (no
\* other process writing to the claim while the cycle runs).
C6_FirstSuccessEndsCycle ==
    (last.op \in PayoutEntryPoints /\ last.alone) =>
        \A k \in 1..MAX_RETRIES :
            FirstSuccess(last.results, k) =>
                /\ last.attempts = k
                /\ Len(last.results) = k
                /\ last.notified = 1
                /\ last.result = "True"
                /\ last.post.status = "paid"
                /\ last.post.payout_status = Some("completed")
                /\ last.logged # << >>
                /\ last.logged[Len(last.logged)].status = "completed"
                /\ last.post.payout_reference = Some(SuccessfulTransactionId)

\* C7 (as the specification states it): a transfer refused by validation
\* (phone number not +254, amount not positive) is made once and not
\* retried.
C7_RefusalNotRetried ==
    (/\ last.op \in PayoutEntryPoints
     /\ last.results # << >>
     /\ last.results[1] = "refused")
        => last.attempts = 1

\* the passes of the loop that ended without a return: those whose transfer
\* did not go through, and those in which the commit of the paid state raised
FailedAttempts(call) ==
    Cardinality({ i \in 1..Len(call.results) : call.results[i] # "success" })
        + call.unsaved

Min(a, b) == IF a <= b THEN a ELSE b

\* C8 (as the specification states it): at most 3 attempts, and a wait
\* after each failed attempt, of 2 s, 4 s and 8 s in turn.
C8_WaitsTwoFourEight ==
    last.op \in PayoutEntryPoints =>
        /\ last.attempts <= 3
        /\ last.sleeps = SubSeq(<<2, 4, 8>>, 1, FailedAttempts(last))

\* C8 (amended): at most 3 attempts; the cycle waits 2 s after the first
\* failed attempt and 4 s after the second, each wait double the one before,
\* and does not wait after the third.  A wait of 8 s never happens.
C8_WaitsTwoFour ==
    last.op \in PayoutEntryPoints =>
        /\ last.attempts <= 3
        /\ last.sleeps = SubSeq(<<2, 4>>, 1, Min(FailedAttempts(last), 2))
        /\ \A i \in 2..Len(last.sleeps) : last.sleeps[i] = 2 * last.sleeps[i - 1]

\* an exhausted cycle: three failed attempts, two waits
C8_Witness ==
    /\ last.op \in PayoutEntryPoints
    /\ last.attempts = 3
    /\ AllFailed(last.results)
    /\ last.sleeps = <<2, 4>>

\* C9: the manual retry on a claim whose payout status is not
\* failed_manual_review_required returns False and changes nothing: no
\* transfer attempt, no log row, no notification, the claim as it was.
C9_RetryRefused ==
    (last.op = "retry_failed_payment" /\ last.pre.payout_status # Failed)
        => /\ last.result = "False"
           /\ last.post = last.pre
           /\ last.attempts = 0
           /\ last.logged = << >>
           /\ last.notified = 0

\* the retry asked for a claim that is approved and already paid out once
C9_Witness ==
    /\ last.op = "retry_failed_payment"
    /\ last.pre.status = "auto_approved"
    /\ last.pre.payout_status = Some("completed")
    /\ last.result = "False"

\* C10: when the transfer succeeds and the notification fails (it raises,
\* or reports that nothing was sent), the payout still returns True, the
\* claim is paid and completed with the reference of that transfer, and the
\* cycle ends with that attempt (no other process writing to the claim
\* meanwhile).  In a cycle in which every commit went through, that attempt
\* is the only successful one and its id is on the last row logged.
C10_NotificationFailureIsHarmless ==
    (last.op \in PayoutEntryPoints /\ last.sms \in {"not_sent", "raised"} /\ last.alone)
        => /\ last.result = "True"
           /\ last.post.status = "paid"
           /\ last.post.payout_status = Some("completed")
           /\ last.post.payout_reference = Some(last.transaction_id)
           /\ last.results # << >>
           /\ last.results[Len(last.results)] = "success"
           /\ last.attempts = Len(last.results)
           /\ last.notified = 1
           /\ last.unsaved = 0 =>
                 /\ last.logged # << >>
                 /\ last.post.payout_reference = Some(SuccessfulTransactionId)
                 /\ FirstSuccess(last.results, Len(last.results))

\* the second attempt went through and the notification raised
C10_Witness ==
    /\ last.op = "process_payout"
    /\ last.sms = "raised"
    /\ last.results = <<"failed", "success">>
    /\ last.alone
    /\ last.result = "True"
    /\ last.post.status = "paid"

-----------------------------------------------------------------------------
\* Properties of the evidence side.  They are stated over `sat`, the record
\* of the last call, and over the cache.

\* the verdict the thresholds give for a moisture index (in hundredths)
VerdictOf(index) ==
    CASE index < -20 -> "severe_stress"
      [] index >= -20 /\ index < -10 -> "moderate_stress"
      [] index >= -10 -> "normal"

\* C15: execute_with_retry calls the remote function at most 3 times.  A
\* transient error (EEException) is followed by a sleep and another call,
\* the sleeps being 2 s and then double that; the first successful call
\* ends the method and its result is returned; after a third transient
\* error that error is raised; any other error leaves the method at once,
\* the call that raised it being the last.
C15_ExecuteWithRetry ==
    sat.op = "execute_with_retry" =>
        LET o == sat.outcomes
            k == sat.calls
        IN  /\ k \in 1..3
            /\ \A i \in 1..(k - 1) : o[i] = "EEException"
            /\ o[k] = "ok" => (sat.ended = "ok" /\ sat.returned = k /\ sat.raised = 0)
            /\ o[k] = "Exception" =>
                   (sat.ended = "Exception" /\ sat.raised = k /\ sat.returned = 0)
            /\ o[k] = "EEException" =>
                   (k = 3 /\ sat.ended = "EEException" /\ sat.raised = 3 /\ sat.returned = 0)
            /\ o[1] = "Exception" => k = 1
            /\ Len(sat.delays) = Min(k - 1, 2)
            /\ Len(sat.delays) >= 1 => sat.delays[1] = 2
            /\ \A i \in 2..Len(sat.delays) : sat.delays[i] = 2 * sat.delays[i - 1]

\* two transient errors, then a result
C15_Witness ==
    /\ sat.op = "execute_with_retry"
    /\ sat.outcomes = <<"EEException", "EEException", "ok">>
    /\ sat.returned = 3
    /\ sat.delays = <<2, 4>>

\* r is the 4-decimal value nearest to coordinate x
nearest(x, r) == (10 * r - x) \in -4..4

round_trips ==
    sat.op = "cache_round_trip" => sat.retrieved = Some(sat.stored)

\* C18 (as the specification states it, the fingerprint being the location
\* rounded to 4 decimal places): a stored record is retrieved unchanged; two
\* locations whose latitudes and whose longitudes round to the same
\* 4-decimal values share a cache entry on the same calendar date, whatever
\* the time of day; a different calendar date gives a different entry.
C18_SameRoundingSameEntry ==
    /\ round_trips
    /\ (sat.op = "_generate_cache_key" /\ sat.before # None) =>
          LET a == sat.before[1]
              b == sat.call
              same(x, y) == \E r \in {x \div 10, x \div 10 + 1} : nearest(x, r) /\ nearest(y, r)
          IN  /\ ( /\ same(a.lat, b.lat) /\ same(a.lng, b.lng)
                   /\ a.claim_date.day = b.claim_date.day ) => a.key = b.key
              /\ a.claim_date.day # b.claim_date.day => a.key # b.key

\* C20: _generate_verdict gives a verdict for every moisture index: below
\* -0.2 severe_stress, from -0.2 up to but not including -0.1
\* moderate_stress, from -0.1 on normal; -0.2 itself is moderate_stress and
\* -0.1 itself is normal.
C20_VerdictThresholds ==
    sat.op = "_generate_verdict" =>
        /\ sat.verdict \in SatelliteVerdict
        /\ sat.verdict = VerdictOf(sat.ndmi_value)
        /\ sat.ndmi_value = -20 => sat.verdict = "moderate_stress"
        /\ sat.ndmi_value = -10 => sat.verdict = "normal"

\* the boundary at exactly -0.2
C20_Witness ==
    /\ sat.op = "_generate_verdict"
    /\ sat.ndmi_value = -20
    /\ sat.verdict = "moderate_stress"

WorkingRedis == [ read |-> TRUE, write |-> TRUE ]
FailingRedis == [ read |-> FALSE, write |-> FALSE ]

\* the entry under the call's key is what it was before the call
EntryUntouched ==
    IF sat.cached = None
    THEN sat.cache_key \notin DOMAIN cache
    ELSE sat.cache_key \in DOMAIN cache /\ cache[sat.cache_key] = sat.cached[1]

\* C16: with Redis failing on every read and every write, verify_claim ends
\* as it does on a miss with a working cache (the same evidence, or the same
\* provider failure, after the same remote calls) whatever the store holds,
\* and the call leaves the store as it was (the entry under its key is
\* what it was, no other process having written it meanwhile).
C16_CacheFailureIsMiss ==
    (sat.op = "verify_claim" /\ sat.redis = FailingRedis) =>
        /\ sat.answers # None
        /\ LET miss == verify_claim(EmptyCache, sat.request.lat, sat.request.lng,
                                    sat.request.claim_date, WorkingRedis, sat.answers[1])
           IN  /\ sat.ended = miss.ended
               /\ sat.result = miss.result
               /\ sat.calls = miss.calls
               /\ ~sat.from_cache
               /\ sat.ended \in {"ok", "EEException", "Exception", "NoImagery"}
               /\ sat.alone => EntryUntouched

\* the store holds an entry for the key with another index, Redis fails, and
\* the call returns what the provider says now
C16_Witness ==
    /\ sat.op = "verify_claim"
    /\ sat.redis = FailingRedis
    /\ sat.cached # None
    /\ sat.ended = "ok"
    /\ sat.alone
    /\ sat.result[1].ndmi_value # sat.cached[1].ndmi_value

\* C17: verify_claim looks in the cache first.  On a hit it returns the
\* cached evidence without any remote call and leaves the entry alone; on a
\* miss it queries the provider and, Redis accepting the write, the result
\* is in the cache under the call's key when it returns; when the query
\* fails the call leaves the cache as it was (no other process having
\* written the entry meanwhile).
C17_CacheFirst ==
    sat.op = "verify_claim" =>
        LET hit == sat.redis.read /\ sat.cached # None
        IN  /\ hit => /\ sat.from_cache
                      /\ sat.ended = "ok"
                      /\ sat.result[1].ndmi_value = sat.cached[1].ndmi_value
                      /\ sat.result[1].verdict = sat.cached[1].verdict
                      /\ sat.calls = << >>
                      /\ EntryUntouched
            /\ ~hit => /\ ~sat.from_cache
                       /\ sat.calls # << >>
                       /\ sat.calls[1] >= 1
            /\ (~hit /\ sat.ended = "ok" /\ sat.redis.write) =>
                   /\ sat.cache_key \in DOMAIN cache
                   /\ sat.cache_key = generate_cache_key(sat.request.lat, sat.request.lng,
                                                        sat.request.claim_date)
                   /\ cache[sat.cache_key].ndmi_value = sat.result[1].ndmi_value
                   /\ cache[sat.cache_key].verdict = sat.result[1].verdict
                   /\ cache[sat.cache_key].ndmi_14day_avg = sat.result[1].ndmi_14day_avg
            /\ (sat.ended # "ok" /\ sat.alone) => EntryUntouched

\* a hit: the entry was there, the provider was not asked
C17_Witness ==
    /\ sat.op = "verify_claim"
    /\ sat.from_cache
    /\ sat.calls = << >>
    /\ sat.request.lat = -129214

-----------------------------------------------------------------------------
(* The order and the repeatability of the stages *)

SatelliteTask == "process_claim_satellite_verification"
WeightedTask == "process_claim_weighted_algorithm"

HasEvidence(c) == c.ndmi_value # None
HasDecision(c) ==
    /\ c.weighted_score # None
    /\ c.verdict_explanation # None
    /\ c.ground_truth_confidence # None
    /\ c.space_truth_confidence # None

\* C11 (as the specification states it): the stages keep their order.  The
\* adjudication task attaches no decision to a claim that has no evidence: it
\* refuses with "Space Truth data not available" (a ValueError) and leaves
\* the claim as it was.  And a payout entry point that no other process
\* disturbs attempts a transfer only for a claim that carried a decision and
\* the status auto_approved when it was entered.
C11_StagesInOrder ==
    /\ (last.op = WeightedTask /\ ~HasEvidence(last.pre)
            => last.result = "ValueError" /\ last.post = last.pre)
    /\ (last.op \in PayoutEntryPoints /\ last.attempts > 0 /\ last.alone
            => HasDecision(last.pre) /\ last.pre.status = "auto_approved")

\* the columns of a claim that hold its evidence, and those that hold its
\* decision
EvidenceColumns ==
    {"ndmi_value", "ndmi_14day_avg", "satellite_verdict", "observation_date",
     "cloud_cover_pct"}
DecisionColumns ==
    {"weighted_score", "status", "verdict_explanation", "ground_truth_confidence",
     "space_truth_confidence"}

\* C12: the evidence stage can be invoked again.  Run on a claim that
\* already has evidence, process_claim_satellite_verification makes no call
\* to the remote provider, whatever the cache holds, and leaves the evidence
\* of the claim as it was.
C12_EvidenceStageResumes ==
    last.op = SatelliteTask /\ HasEvidence(last.pre)
        => /\ last.stage.remote_calls = 0
           /\ \A f \in EvidenceColumns : last.post[f] = last.pre[f]

\* the task run on a claim with evidence, while the provider has imagery
\* and the cache holds an entry
C12_Witness ==
    /\ last.op = SatelliteTask
    /\ HasEvidence(last.pre)
    /\ last.stage.imagery = "available"
    /\ cache # EmptyCache

\* C13: adjudication is idempotent.  On a claim with evidence, a run of
\* process_claim_weighted_algorithm that follows another one at once leaves
\* score, status, explanation and confidences as the first run left them;
\* and a decision written by update_claim replaces the one the claim
\* carries: afterwards the five columns hold the values of the new decision.
C13_AdjudicationRepeats ==
    /\ (last.op = WeightedTask /\ HasEvidence(last.pre) /\ last.stage.before # None)
          => \A f \in DecisionColumns : last.post[f] = last.stage.before[1][f]
    /\ (last.op = "update_claim" /\ last.asked.verification_result # None)
          => LET v == last.asked.verification_result[1]
             IN  /\ claim.weighted_score = Some(v.weighted_score)
                 /\ claim.status = v.status
                 /\ claim.verdict_explanation = Some(v.verdict_explanation)
                 /\ claim.ground_truth_confidence = Some(v.ground_truth_confidence)
                 /\ claim.space_truth_confidence = Some(v.space_truth_confidence)

\* the task run twice in a row on a claim that has evidence and a decision
C13_Witness ==
    /\ last.op = WeightedTask
    /\ last.stage.before # None
    /\ HasEvidence(last.pre)
    /\ HasDecision(last.pre)

C14_NoImageryIsPermanent ==
    last.op = SatelliteTask /\ last.stage.imagery = "none"
        => /\ last.result = "NoImagery"
           /\ last.stage.remote_calls <= 1
           /\ ~last.stage.rescheduled
           /\ last.post = last.pre
           /\ cache = EmptyCache

-----------------------------------------------------------------------------
\* Properties of WeightedVerificationService.verify.  They are stated over
\* engine.call, the inputs and the decision of the last call.

Verified == engine.call # NoCall
Condition == engine.call.ground_truth.ml_class
Confidence == engine.call.ground_truth.ml_confidence
Index == engine.call.space_truth.ndmi_value
Verdict == engine.call.space_truth.verdict
Decision == engine.call.result
InMonth(months) ==
    engine.call.claim_date # None /\ engine.call.claim_date[1].month \in months
Decided(status, score, rule_applied, st_conf) ==
    /\ Decision.status = status
    /\ Decision.score = score
    /\ Decision.rule_applied = rule_applied
    /\ Decision.space_truth_confidence = st_conf

\* C21: drought with a normal verdict and an index >= -0.1 is flagged for
\* review with score 0.65 by rule 2, with satellite confidence 0.3, with or
\* without a claim date and in every month.
C21_DroughtNormalIsRule2 ==
    Verified /\ Condition = "drought_stress" /\ Verdict = "normal" /\ Index >= -10
        => Decided("flagged_for_review", 650, "rule_2_drought_normal_moisture", 30)

\* such a claim dated in January, decided by rule 2
C21_Witness ==
    /\ Verified /\ Condition = "drought_stress" /\ Verdict = "normal" /\ Index >= -10
    /\ InMonth({1})
    /\ Decision.rule_applied = "rule_2_drought_normal_moisture"

NamesMonthAndIrrigation ==
    /\ Len(Decision.explanation.base) = 3
    /\ Decision.explanation.base[2] =
          (IF engine.call.claim_date[1].month = 1 THEN "January" ELSE "February")
    /\ Decision.explanation.base[3] =
          "), but satellite shows adequate moisture. Claim rejected due to seasonality mismatch unless irrigation is documented."

RejectedBySeasonality ==
    /\ Decided("rejected", 450, "seasonality_dry_harvest_rejection", 30)
    /\ NamesMonthAndIrrigation

\* C22 (as stated): a drought claim dated in January or February whose
\* evidence shows normal moisture (index >= -0.1, verdict normal) is rejected
\* with score 0.45 by the seasonality rule, with satellite confidence 0.3
\* and an explanation that names the month and mentions irrigation.
C22_DryMonthNormalRejected ==
    Verified /\ Condition = "drought_stress" /\ InMonth({1, 2})
             /\ Index >= -10 /\ Verdict = "normal"
        => RejectedBySeasonality

\* C23: drought with an index < -0.2 is auto-approved with score 0.95 by
\* rule 1, with the input confidence as ground confidence and satellite
\* confidence 0.9, whatever the confidence, the verdict and the claim date;
\* at an index of exactly -0.2 rule 1 does not fire.
C23_DroughtLowMoistureIsRule1 ==
    /\ Verified /\ Condition = "drought_stress" /\ Index < -20
           => /\ Decided("auto_approved", 950, "rule_1_drought_low_moisture", 90)
              /\ Decision.ground_truth_confidence = Confidence
    /\ Verified /\ Condition = "drought_stress" /\ Index = -20
           => Decision.rule_applied # "rule_1_drought_low_moisture"

\* rule 1 on a claim of January
C23_Witness ==
    /\ Verified /\ Condition = "drought_stress" /\ Index < -20 /\ InMonth({1})
    /\ Decision.rule_applied = "rule_1_drought_low_moisture"

\* C24: northern_leaf_blight and common_rust are auto-approved with score
\* 0.85 by rule 3, with satellite confidence 0.5, for every confidence,
\* index, verdict and claim date.
C24_DiseaseIsRule3 ==
    Verified /\ Condition \in {"northern_leaf_blight", "common_rust"}
        => Decided("auto_approved", 850, "rule_3_disease_normal_moisture", 50)

\* common rust under a severe verdict, approved by rule 3
C24_Witness ==
    /\ Verified /\ Condition = "common_rust" /\ Verdict = "severe_stress" /\ Index < -20
    /\ Decision.rule_applied = "rule_3_disease_normal_moisture"

\* C25: a healthy crop is rejected with score 0.2 by rule 4, with satellite
\* confidence 0.9, exactly when the index is < -0.1; with an index >= -0.1
\* the decision comes from the weighted_score path.
C25_HealthyLowMoistureIsRule4 ==
    Verified /\ Condition = "healthy"
        => IF Index < -10
           THEN Decided("rejected", 200, "rule_4_healthy_low_moisture", 90)
           ELSE Decision.rule_applied = "weighted_score"

\* a healthy crop at an index of exactly -0.1, on the weighted path
C25_Witness ==
    /\ Verified /\ Condition = "healthy" /\ Index = -10
    /\ Decision.rule_applied = "weighted_score"

\* C26: condition other is rejected with score exactly 0.0 by rule 5, with
\* satellite confidence 0.0, whatever the index, the verdict, the confidence
\* and the claim date.
C26_OtherIsRule5 ==
    Verified /\ Condition = "other"
        => Decided("rejected", 0, "rule_5_invalid_subject", 0)

\* rule 5 under a severe verdict
C26_Witness ==
    /\ Verified /\ Condition = "other" /\ Verdict = "severe_stress"
    /\ Decision.rule_applied = "rule_5_invalid_subject"

\* no contextual rule and no seasonality rule applies to the last call
NoRuleFires ==
    \/ Condition = "fall_armyworm"
    \/ Condition = "healthy" /\ Index >= -10
    \/ /\ Condition = "drought_stress" /\ Index >= -20 /\ Verdict # "normal"
       /\ ~(InMonth({1, 2}) /\ Index >= -10)

ConfidenceOfVerdict ==
    CASE Verdict = "severe_stress" -> 90
      [] Verdict = "moderate_stress" -> 60
      [] Verdict = "normal" -> 30

\* C27: when no rule fires the decision is labelled weighted_score, its
\* score is 0.6 x ground confidence + 0.4 x satellite confidence (0.9, 0.6,
\* 0.3 for severe, moderate, normal), and its status is auto_approved iff
\* score > 0.8, flagged_for_review iff 0.5 <= score <= 0.8, rejected iff
\* score < 0.5; fall_armyworm at 0.87 under a normal verdict scores 0.642
\* and is flagged.
C27_WeightedPath ==
    /\ Verified /\ NoRuleFires
           => /\ Decision.rule_applied = "weighted_score"
              /\ Decision.ground_truth_confidence = Confidence
              /\ Decision.space_truth_confidence = ConfidenceOfVerdict
              /\ Decision.score = 6 * Confidence + 4 * ConfidenceOfVerdict
              /\ (Decision.status = "auto_approved" <=> Decision.score > 800)
              /\ (Decision.status = "flagged_for_review"
                     <=> Decision.score >= 500 /\ Decision.score <= 800)
              /\ (Decision.status = "rejected" <=> Decision.score < 500)
    /\ Verified /\ ~NoRuleFires => Decision.rule_applied # "weighted_score"
    /\ Verified /\ Condition = "fall_armyworm" /\ Confidence = 87 /\ Verdict = "normal"
           => Decision.score = 642 /\ Decision.status = "flagged_for_review"

\* the armyworm example
C27_Witness ==
    /\ Verified /\ Condition = "fall_armyworm" /\ Confidence = 87 /\ Verdict = "normal"
    /\ Decision.score = 642

\* the contextual rules whose condition holds for the last call
RulesThatHold ==
    LET g == engine.call.ground_truth
        e == engine.call.space_truth
    IN  { k \in 1..5 :
            CASE k = 1 -> rule_1_drought_low_moisture(g, e)
              [] k = 2 -> rule_2_drought_normal_moisture(g, e)
              [] k = 3 -> rule_3_disease_normal_moisture(g, e)
              [] k = 4 -> rule_4_healthy_low_moisture(g, e)
              [] k = 5 -> rule_5_invalid_subject(g, e) }

\* the name under which rule k decides
RuleNames ==
    << "rule_1_drought_low_moisture", "rule_2_drought_normal_moisture",
       "rule_3_disease_normal_moisture", "rule_4_healthy_low_moisture",
       "rule_5_invalid_subject" >>

\* C28: the conditions of the contextual rules exclude each other.  For
\* every ground observation and every satellite evidence as the satellite
\* service produces it (the verdict being the one its index gives), at most
\* one of the conditions of rules 1 to 5 holds, and the rule whose condition
\* holds is the one that decides.
C28_RulesExclusive ==
    Verified /\ Verdict = VerdictOf(Index)
        => /\ Cardinality(RulesThatHold) <= 1
           /\ \A k \in RulesThatHold : Decision.rule_applied = RuleNames[k]

\* a rule decided on evidence whose verdict follows its index
C28_Witness ==
    /\ Verified /\ Verdict = VerdictOf(Index)
    /\ Condition = "drought_stress" /\ Index < -20
    /\ RulesThatHold = {1}
    /\ Decision.rule_applied = "rule_1_drought_low_moisture"

\* C29: whichever rule or path decided, the explanation carries the
\* disagreement notice if and only if the condition is drought under a
\* normal verdict or healthy under a severe verdict.
C29_DisagreementNotice ==
    Verified =>
        ( (/\ Len(Decision.explanation.disagreement) > 0
           /\ Decision.explanation.disagreement[1] =
                 "Ground Truth and Space Truth Disagreement Detected")
          <=> \/ Condition = "drought_stress" /\ Verdict = "normal"
              \/ Condition = "healthy" /\ Verdict = "severe_stress" )

\* a healthy crop under a severe verdict, decided on the weighted path, with
\* the notice
C29_Witness ==
    /\ Verified /\ Condition = "healthy" /\ Verdict = "severe_stress"
    /\ Decision.rule_applied = "weighted_score"
    /\ Len(Decision.explanation.disagreement) > 0

\* C39: the ground confidence, the satellite confidence and the score
\* printed in the verification-logic section of a decision's explanation are
\* the decision's own ground_truth_confidence, space_truth_confidence and
\* score (printed as a percentage with one decimal and with two decimals).
C39_ExplanationMatchesDecision ==
    Verified =>
        /\ Decision.explanation.logic.ground_truth_confidence
              = 10 * Decision.ground_truth_confidence
        /\ Decision.explanation.logic.space_truth_confidence
              = 10 * Decision.space_truth_confidence
        /\ Decision.explanation.logic.weighted_score = (Decision.score + 5) \div 10

\* C40: every decision has a score in [0, 1] and a status that agrees with
\* the threshold printed in its explanation: auto_approved only with score
\* > 0.8, flagged_for_review only with 0.5 <= score <= 0.8, rejected only
\* with score < 0.5.
C40_StatusAgreesWithThreshold ==
    Verified =>
        /\ Decision.score \in 0..1000
        /\ Decision.status \in {"auto_approved", "flagged_for_review", "rejected"}
        /\ Decision.status = "auto_approved" =>
              /\ Decision.score > 800
              /\ Decision.explanation.threshold = << "Auto-approve (score > ", 800, ")" >>
        /\ Decision.status = "flagged_for_review" =>
              /\ Decision.score >= 500 /\ Decision.score <= 800
              /\ Decision.explanation.threshold =
                    << "Flag for review (score between ", 500, " and ", 800, ")" >>
        /\ Decision.status = "rejected" =>
              /\ Decision.score < 500
              /\ Decision.explanation.threshold = << "Reject (score < ", 500, ")" >>

\* a rejection by the seasonality rule with its threshold printed
C40_Witness ==
    /\ Verified
    /\ Decision.rule_applied = "seasonality_dry_harvest_rejection"
    /\ Decision.score = 450
    /\ Decision.explanation.threshold = << "Reject (score < ", 500, ")" >>

-----------------------------------------------------------------------------
\* Properties of the tasks and of the claim's fields

EvidenceFields ==
    { "ndmi_value", "ndmi_14day_avg", "satellite_verdict", "observation_date",
      "cloud_cover_pct" }

\* C31: for a claim with evidence attached, whatever its index (0.0
\* included), the adjudication task runs the engine and attaches a decision
\* whose status becomes the claim's status; it reports missing evidence only
\* for a claim without evidence, which it leaves unchanged.
C31_AdjudicatesWhateverTheIndex ==
    last.op = WeightedTask =>
        /\ last.result = "ValueError" => ~HasEvidence(last.pre) /\ last.post = last.pre
        /\ HasEvidence(last.pre) =>
              /\ last.result = "ok"
              /\ last.post.weighted_score # None
              /\ last.post.status \in {"auto_approved", "flagged_for_review", "rejected"}

\* C32: when the satellite retrieval succeeds, the evidence task stores on
\* the claim the five evidence fields and leaves every other field (status,
\* decision, payout) as it was.
C32_EvidenceStored ==
    last.op = SatelliteTask /\ last.stage.imagery = "available" =>
        /\ last.result = "ok"
        /\ \A f \in EvidenceFields : last.post[f] # None
        /\ \A f \in (DOMAIN claim) \ EvidenceFields : last.post[f] = last.pre[f]

\* C33: process_claim_workflow runs satellite verification, then the
\* weighted algorithm, then payment; each stage is applied with the
\* submitted claim's id as claim_id, the result of the stage before it
\* arriving only as the second argument.
C33_WorkflowPassesClaimId ==
    ("chain" \in DOMAIN last /\ last.chain.ended) =>
        /\ [ k \in DOMAIN last.chain.ran |-> last.chain.ran[k].task ] = ChainedTasks
        /\ \A k \in DOMAIN last.chain.ran :
              /\ last.chain.ran[k].claim_id = ClaimId
              /\ k = 1 => last.chain.ran[k].second = None
              /\ k > 1 => /\ last.chain.ran[k].second # None
                          /\ last.chain.ran[k].second[1] # ClaimId

\* C37: retry_failed_payment on a claim flagged failed_manual_review_required
\* ends with the claim paid (returning true) or flagged again (returning
\* false), whatever the claim's status is; it never returns false with the
\* payout status pending.
C37_RetryEndsPaidOrFlagged ==
    last.op = "retry_failed_payment" /\ last.pre.payout_status = Failed /\ last.alone =>
        \/ /\ last.result = "True"
           /\ last.post.status = "paid"
        \/ /\ last.result = "False"
           /\ last.post.payout_status = Failed

\* C38: in every reachable state the claim's status is paid if and only if
\* its payout status is completed, and then its payout reference is the
\* transaction id of a row of the payment log recorded as completed.
C38_PaidIffCompleted ==
    /\ claim.status = "paid" <=> claim.payout_status = Some("completed")
    /\ claim.status = "paid" =>
          /\ claim.payout_reference # None
          /\ \E i \in DOMAIN payment_log :
                /\ payment_log[i].transaction_id = claim.payout_reference[1]
                /\ payment_log[i].status = "completed"

-----------------------------------------------------------------------------
\* Properties of payout cycles that run at the same time

\* the payout calls in progress
Running == { w \in Workers : workers.procs[w].pc # "idle" }

\* the transfers that went through
Completed == { i \in DOMAIN payment_log : payment_log[i].status = "completed" }

\* C34: no transfer is sent for a claim whose status, at the moment the
\* transfer is sent, is not auto_approved, even when a status update for the
\* claim falls into a running payout cycle.
C34_TransferOnlyWhileApproved ==
    \A w \in Running :
        workers.procs[w].sent_while \in {None, Some("auto_approved")}

\* C35: when two payout cycles for the same approved claim interleave (two
\* process_payout, or process_payout and retry_failed_payment), at most one
\* successful transfer is made.  Stated for runs without a status update
\* and without a failed commit, in which cycles that run one after the other
\* make at most one.
C35_OneTransferPerClaim ==
    workers.updates = 0 /\ workers.unsaved = 0 => Cardinality(Completed) <= 1

\* C36: within one payout cycle no transfer attempt is made once an attempt
\* has succeeded, even if the commit of the paid state fails afterwards.
C36_NoAttemptAfterSuccess ==
    \A w \in Running :
        \A k \in 1..(Len(workers.procs[w].results) - 1) :
            workers.procs[w].results[k] # "success"

====
